---- MODULE Spec2Model ----
(***************************************************************************)
(* Model of the Black Duck MCP server's fix-guidance pipeline              *)
(* (src/src/tools/fix-guidance.ts and its helpers, fix-guidance.utils).    *)
(*                                                                         *)
(* Representation of JavaScript values:                                    *)
(*   - a string is a sequence of text fragments; "/" and " " are always    *)
(*     fragments of their own, so split("/") and trim() can be modelled    *)
(*     by what they do;                                                    *)
(*   - the value undefined, where a string is expected, is UNDEF;          *)
(*   - an object is a record; a missing key is a key outside its DOMAIN;   *)
(*     JSON null, where an object is expected, is JsNull.                  *)
(***************************************************************************)
EXTENDS Integers, Sequences, FiniteSets, TLC

(***************************************************************************)
(* Bounds of the model.                                                    *)
(***************************************************************************)
\* items of a dependency-path response
MaxItems == 2
\* nodes of a dependency path
MaxPathLen == 2
\* units (a segment, or a segment and the token after it) of a link href
MaxHrefUnits == 3
\* largest count in one severity bucket
MaxCount == 2
\* invocations of the pipeline that run at the same time
MaxInvocations == 2

(***************************************************************************)
(* Strings.                                                                *)
(***************************************************************************)
UNDEF == <<"<undefined>">>
EMPTY == <<>>
BLANK == <<" ">>

\* JavaScript truthiness of a string-or-undefined value.
Truthy(s) == s # UNDEF /\ s # EMPTY

RECURSIVE TrimStart(_)
TrimStart(s) ==
    IF s # <<>> /\ Head(s) = " " THEN TrimStart(Tail(s)) ELSE s

RECURSIVE TrimEnd(_)
TrimEnd(s) ==
    IF s # <<>> /\ s[Len(s)] = " " THEN TrimEnd(SubSeq(s, 1, Len(s) - 1)) ELSE s

\* String.prototype.trim
Trim(s) == TrimEnd(TrimStart(s))

\* String.prototype.split("/"): one token more than there are slashes.
RECURSIVE Split(_)
Split(s) ==
    IF s = <<>> THEN << <<>> >>
    ELSE LET rest == Split(Tail(s))
         IN  IF Head(s) = "/"
             THEN << <<>> >> \o rest
             ELSE << <<Head(s)>> \o Head(rest) >> \o Tail(rest)

\* Array.prototype.indexOf: zero-based index of the first match, or -1.
RECURSIVE IndexFrom(_, _, _)
IndexFrom(parts, tok, i) ==
    IF i >= Len(parts) THEN -1
    ELSE IF parts[i + 1] = tok THEN i
    ELSE IndexFrom(parts, tok, i + 1)

IndexOf(parts, tok) == IndexFrom(parts, tok, 0)

\* parts[i] with a zero-based index; undefined outside the array.
At(parts, i) == IF i >= 0 /\ i < Len(parts) THEN parts[i + 1] ELSE UNDEF

\* JSON null, and undefined where an object is expected.
JsNull == [isNull |-> TRUE]
JsUndefined == [isUndefined |-> TRUE]

\* o.k for a string-valued key: undefined when the key is missing.
Field(o, k) == IF k \in DOMAIN o THEN o[k] ELSE UNDEF

\* A value interpolated into a template string, or concatenated to one.
Interp(s) == IF s = UNDEF THEN <<"undefined">> ELSE s

\* A function's completion: it returned value, or it threw error.
Return(value) == [threw |-> FALSE, value |-> value]
Throw(error) == [threw |-> TRUE, error |-> error]

(***************************************************************************)
(* Errors (utils/errors: BlackDuckError and its subclasses) and their      *)
(* rendering for the tool-call layer.                                      *)
(***************************************************************************)
\* An exception value: cls tells which instanceof tests it passes.
MkError(cls, name, message) == [cls |-> cls, name |-> name, message |-> message]

PlainError(message) == MkError("Error", "Error", message)
TypeError(message) == MkError("Error", "TypeError", message)

BlackDuckErrorNames ==
    {"BlackDuckError", "AuthenticationError", "NotFoundError", "ValidationError",
     "RateLimitError", "ServerError", "NetworkError"}

\* What a collaborator call can reject with.
CollaboratorErrors ==
    {MkError("BlackDuckError", n, <<"upstream failure">>) : n \in BlackDuckErrorNames}
        \cup {PlainError(<<"socket hang up">>),
              MkError("NonError", "", <<"aborted">>)}

formatErrorForMCP(error) ==
    IF error.cls = "BlackDuckError" THEN <<error.name, ": ">> \o error.message
    ELSE IF error.cls = "Error" THEN <<"Error", ": ">> \o error.message
    ELSE <<"Unknown error", ": ">> \o error.message

(***************************************************************************)
(* Step 1: parameter validation.                                           *)
(***************************************************************************)
requiredFields ==
    <<"projectId", "projectVersionId", "componentId", "componentVersionId",
      "vulnerabilityId", "originId">>

Fields == {requiredFields[i] : i \in 1..Len(requiredFields)}

\* Mutation of FieldBlank: the test without trim(), so a blank field passes.
FieldBlankUntrimmed(p, field) == ~Truthy(p[field])

FieldBlank(p, field) == ~Truthy(p[field]) \/ Len(Trim(p[field])) = 0

\* The loop of validateParameters from the i-th required field on.
RECURSIVE validateFrom(_, _)
validateFrom(p, i) ==
    IF i > Len(requiredFields) THEN Return(UNDEF)
    ELSE IF FieldBlank(p, requiredFields[i])
         THEN Throw(PlainError(<<requiredFields[i], " is required">>))
         ELSE validateFrom(p, i + 1)

validateParameters(p) == validateFrom(p, 1)

(***************************************************************************)
(* Identifier extraction (fix-guidance.utils).                             *)
(***************************************************************************)
\* The null the extraction functions return.
NoIds == JsNull

\* Mutation of parseComponentIdsFromHref: no test for a missing segment, so
\* hrefParts[-1 + 1] is read instead.
parseComponentIdsUnchecked(href, dependencyType) ==
    LET hrefParts == Split(href)
        originsIndex == IndexOf(hrefParts, <<"origins">>)
    IN  [componentId |-> At(hrefParts, IndexOf(hrefParts, <<"components">>) + 1),
         componentVersionId |-> At(hrefParts, IndexOf(hrefParts, <<"versions">>) + 1),
         originId |-> IF originsIndex # -1 /\ dependencyType = "TRANSITIVE"
                      THEN At(hrefParts, originsIndex + 1)
                      ELSE UNDEF]

parseComponentIdsFromHref(href, dependencyType) ==
    LET hrefParts == Split(href)
        componentsIndex == IndexOf(hrefParts, <<"components">>)
        versionsIndex == IndexOf(hrefParts, <<"versions">>)
        originsIndex == IndexOf(hrefParts, <<"origins">>)
    IN  IF componentsIndex = -1 \/ versionsIndex = -1 THEN NoIds
        ELSE [componentId |-> At(hrefParts, componentsIndex + 1),
              componentVersionId |-> At(hrefParts, versionsIndex + 1),
              originId |-> IF originsIndex # -1 /\ dependencyType = "TRANSITIVE"
                           THEN At(hrefParts, originsIndex + 1)
                           ELSE UNDEF]

\* The relation the guidance link must carry.
GuidanceRel(dependencyType) ==
    IF dependencyType = "DIRECT" THEN "upgrade-guidance"
    ELSE "transitive-upgrade-guidance"

\* Array.prototype.find over the links: index of the first link with the
\* relation, 0 when there is none.
RECURSIVE FindLink(_, _, _)
FindLink(links, rel, i) ==
    IF i > Len(links) THEN 0
    ELSE IF links[i].rel = rel THEN i
    ELSE FindLink(links, rel, i + 1)

\* Mutation of NodeLinks: pathNode._meta.links without the optional chaining
\* and the default, so a node without _meta throws.
NodeLinksStrict(pathNode) ==
    IF pathNode = JsNull \/ "meta" \notin DOMAIN pathNode
    THEN Throw(TypeError(<<"Cannot read properties of undefined">>))
    ELSE IF "links" \in DOMAIN pathNode.meta
    THEN Return(pathNode.meta.links)
    ELSE Return(<<>>)

\* pathNode._meta?.links || [] ; reading _meta of a null node throws.
NodeLinks(pathNode) ==
    IF pathNode = JsNull
    THEN Throw(TypeError(<<"Cannot read properties of null">>))
    ELSE IF "meta" \in DOMAIN pathNode /\ "links" \in DOMAIN pathNode.meta
    THEN Return(pathNode.meta.links)
    ELSE Return(<<>>)

\* Mutation of extractComponentIdsFromPath: the last node of the path is
\* read instead of the second to last.
extractComponentIdsFromLastNode(pathItem, dependencyType) ==
    IF "path" \notin DOMAIN pathItem \/ Len(pathItem.path) <= 1 THEN Return(NoIds)
    ELSE LET pathNode == pathItem.path[Len(pathItem.path)]
             links == NodeLinks(pathNode)
         IN  IF links.threw THEN links
             ELSE LET k == FindLink(links.value, GuidanceRel(dependencyType), 1)
                  IN  IF k = 0 \/ ~Truthy(links.value[k].href) THEN Return(NoIds)
                      ELSE Return(parseComponentIdsFromHref(links.value[k].href,
                                                            dependencyType))

extractComponentIdsFromPath(pathItem, dependencyType) ==
    IF "path" \notin DOMAIN pathItem \/ Len(pathItem.path) <= 1 THEN Return(NoIds)
    ELSE LET pathNode == pathItem.path[Len(pathItem.path) - 1]
             links == NodeLinks(pathNode)
         IN  IF links.threw THEN links
             ELSE LET k == FindLink(links.value, GuidanceRel(dependencyType), 1)
                  IN  IF k = 0 \/ ~Truthy(links.value[k].href) THEN Return(NoIds)
                      ELSE Return(parseComponentIdsFromHref(links.value[k].href,
                                                            dependencyType))

(***************************************************************************)
(* Step 3: dependency analysis (fix-guidance.ts).                          *)
(***************************************************************************)
\* Mutation of DefaultAnalysis: the classification starts as TRANSITIVE.
DefaultAnalysisTransitive(p) ==
    [dependencyType |-> "TRANSITIVE",
     guidanceComponentId |-> p.componentId,
     guidanceComponentVersionId |-> p.componentVersionId,
     guidanceOriginId |-> p.originId]

\* The DependencyAnalysis before the lookup answers (lines 118-121).
DefaultAnalysis(p) ==
    [dependencyType |-> "DIRECT",
     guidanceComponentId |-> p.componentId,
     guidanceComponentVersionId |-> p.componentVersionId,
     guidanceOriginId |-> p.originId]

\* dependencyPaths.items && dependencyPaths.items.length > 0
HasItems(dependencyPaths) ==
    "items" \in DOMAIN dependencyPaths /\ Len(dependencyPaths.items) > 0

\* Mutation of FirstItem: the last item of the response is read.
LastItem(items) == items[Len(items)]

\* The item the analysis reads.
FirstItem(items) == items[1]

\* reply is the completion of blackDuckClient.getDependencyPaths.  Whatever is
\* thrown inside the try block is swallowed; assignments made before it stay.
analyzeDependencyType(p, reply) ==
    LET start == DefaultAnalysis(p)
    IN  IF reply.threw THEN start
        ELSE IF reply.value = JsNull THEN start
        ELSE IF ~HasItems(reply.value) THEN start
        ELSE LET firstItem == FirstItem(reply.value.items)
                 typed == [start EXCEPT !.dependencyType = firstItem.type]
                 extracted == extractComponentIdsFromPath(firstItem, firstItem.type)
             IN  IF extracted.threw \/ extracted.value = NoIds THEN typed
                 ELSE [typed EXCEPT
                         !.guidanceComponentId = extracted.value.componentId,
                         !.guidanceComponentVersionId =
                             extracted.value.componentVersionId,
                         !.guidanceOriginId =
                             IF Truthy(extracted.value.originId)
                             THEN extracted.value.originId
                             ELSE @]

(***************************************************************************)
(* Step 4: the guidance call issued for an analysis.                       *)
(***************************************************************************)
\* Mutation of fetchUpgradeGuidance: the two-identifier endpoint is called
\* whatever the classification.
fetchUpgradeGuidanceDirectOnly(dependencyType, componentId, componentVersionId, originId) ==
    [fn |-> "getUpgradeGuidance", args |-> <<componentId, componentVersionId>>]

fetchUpgradeGuidance(dependencyType, componentId, componentVersionId, originId) ==
    IF dependencyType = "DIRECT"
    THEN [fn |-> "getUpgradeGuidance",
          args |-> <<componentId, componentVersionId>>]
    ELSE [fn |-> "getTransitiveUpgradeGuidance",
          args |-> <<componentId, componentVersionId, originId>>]

(***************************************************************************)
(* Risk aggregation (fix-guidance.utils).                                  *)
(***************************************************************************)
\* Mutation of getTotalVulnerabilities: the low bucket is left out.
getTotalVulnerabilitiesNoLow(risks) ==
    risks.critical + risks.high + risks.medium

getTotalVulnerabilities(risks) ==
    risks.critical + risks.high + risks.medium + risks.low

\* Array.prototype.join(", ")
RECURSIVE Join(_)
Join(parts) ==
    IF parts = <<>> THEN <<>>
    ELSE IF Len(parts) = 1 THEN parts[1]
    ELSE parts[1] \o <<", ">> \o Join(Tail(parts))

\* Mutation of calculateRiskReduction: only the critical bucket decides
\* whether critical and high are eliminated.
calculateRiskReductionCriticalOnly(remainingRisks) ==
    LET total == getTotalVulnerabilities(remainingRisks)
        criticalAndHigh == remainingRisks.critical
        part(n, label) == IF n > 0 THEN << <<ToString(n), label>> >> ELSE <<>>
        parts == part(remainingRisks.critical, " critical")
                   \o part(remainingRisks.high, " high")
                   \o part(remainingRisks.medium, " medium")
                   \o part(remainingRisks.low, " low")
    IN  IF total = 0 THEN <<"Eliminates all known vulnerabilities">>
        ELSE IF criticalAndHigh = 0
        THEN <<"Eliminates all critical and high severity vulnerabilities (",
               ToString(total), " low/medium remain)">>
        ELSE <<ToString(total), " vulnerabilities remain: ">> \o Join(parts)

calculateRiskReduction(remainingRisks) ==
    LET total == getTotalVulnerabilities(remainingRisks)
        criticalAndHigh == remainingRisks.critical + remainingRisks.high
        part(n, label) == IF n > 0 THEN << <<ToString(n), label>> >> ELSE <<>>
        parts == part(remainingRisks.critical, " critical")
                   \o part(remainingRisks.high, " high")
                   \o part(remainingRisks.medium, " medium")
                   \o part(remainingRisks.low, " low")
    IN  IF total = 0 THEN <<"Eliminates all known vulnerabilities">>
        ELSE IF criticalAndHigh = 0
        THEN <<"Eliminates all critical and high severity vulnerabilities (",
               ToString(total), " low/medium remain)">>
        ELSE <<ToString(total), " vulnerabilities remain: ">> \o Join(parts)

\* upgradeGuidance.<horizon> is truthy: present and not null.
HorizonTruthy(upgradeGuidance, h) ==
    h \in DOMAIN upgradeGuidance /\ upgradeGuidance[h] # JsNull

\* upgradeGuidance.<horizon> !== undefined
HorizonDefined(upgradeGuidance, h) == h \in DOMAIN upgradeGuidance

getFixAvailability(upgradeGuidance) ==
    LET hasShortTermFix == HorizonDefined(upgradeGuidance, "shortTerm")
        hasLongTermFix == HorizonDefined(upgradeGuidance, "longTerm")
    IN  [hasShortTermFix |-> hasShortTermFix,
         hasLongTermFix |-> hasLongTermFix,
         hasAnyFix |-> hasShortTermFix \/ hasLongTermFix]

\* Mutation of generateComparisonRecommendation: the long-term version is
\* preferred on a tie as well.
generateComparisonRecommendationOnTie(shortTerm, longTerm) ==
    LET shortTermVulns == getTotalVulnerabilities(shortTerm.vulnerabilityRisk)
        longTermVulns == getTotalVulnerabilities(longTerm.vulnerabilityRisk)
    IN  IF longTermVulns <= shortTermVulns
        THEN <<"Recommended: Use the long-term version (">> \o longTerm.versionName
               \o <<") as it has fewer vulnerabilities.">>
        ELSE IF shortTermVulns = 0
        THEN <<"Recommended: Use the short-term version (">> \o shortTerm.versionName
               \o <<") as it has no known vulnerabilities.">>
        ELSE <<"Both versions have vulnerabilities. Consider the trade-offs between version compatibility and security.">>

\* Mutation of generateComparisonRecommendation: the comparison is the other
\* way round.
generateComparisonRecommendationReversed(shortTerm, longTerm) ==
    LET shortTermVulns == getTotalVulnerabilities(shortTerm.vulnerabilityRisk)
        longTermVulns == getTotalVulnerabilities(longTerm.vulnerabilityRisk)
    IN  IF longTermVulns > shortTermVulns
        THEN <<"Recommended: Use the long-term version (">> \o longTerm.versionName
               \o <<") as it has fewer vulnerabilities.">>
        ELSE IF shortTermVulns = 0
        THEN <<"Recommended: Use the short-term version (">> \o shortTerm.versionName
               \o <<") as it has no known vulnerabilities.">>
        ELSE <<"Both versions have vulnerabilities. Consider the trade-offs between version compatibility and security.">>

generateComparisonRecommendation(shortTerm, longTerm) ==
    LET shortTermVulns == getTotalVulnerabilities(shortTerm.vulnerabilityRisk)
        longTermVulns == getTotalVulnerabilities(longTerm.vulnerabilityRisk)
    IN  IF longTermVulns < shortTermVulns
        THEN <<"Recommended: Use the long-term version (">> \o longTerm.versionName
               \o <<") as it has fewer vulnerabilities.">>
        ELSE IF shortTermVulns = 0
        THEN <<"Recommended: Use the short-term version (">> \o shortTerm.versionName
               \o <<") as it has no known vulnerabilities.">>
        ELSE <<"Both versions have vulnerabilities. Consider the trade-offs between version compatibility and security.">>

(***************************************************************************)
(* Step 5: the response (fix-guidance.ts).                                 *)
(***************************************************************************)
\* characters of the description kept by substring(0, 200)
DescriptionLimit == 200

Min(a, b) == IF a < b THEN a ELSE b

\* description?.substring(0, 200) + (description && description.length > 200 ? "..." : "")
TruncateDescription(description) ==
    IF description = UNDEF THEN Interp(UNDEF)
    ELSE SubSeq(description, 1, Min(Len(description), DescriptionLimit))
           \o (IF Len(description) > DescriptionLimit THEN <<"...">> ELSE <<>>)

buildVulnerabilityInfo(vulnerabilityId, vulnerabilityDetails) ==
    IF vulnerabilityDetails \in {JsUndefined, JsNull}
    THEN [name |-> vulnerabilityId,
          note |-> <<"Could not fetch vulnerability details">>]
    ELSE [name |-> Field(vulnerabilityDetails, "vulnerabilityName"),
          severity |-> IF Truthy(Field(vulnerabilityDetails, "severity"))
                       THEN vulnerabilityDetails.severity
                       ELSE <<"UNSPECIFIED">>,
          baseScore |-> Field(vulnerabilityDetails, "baseScore"),
          description |->
              TruncateDescription(Field(vulnerabilityDetails, "description")),
          cvss3 |-> IF "cvss3" \in DOMAIN vulnerabilityDetails
                       /\ vulnerabilityDetails.cvss3 # JsNull
                    THEN [baseScore |-> Field(vulnerabilityDetails.cvss3, "baseScore"),
                          severity |-> Field(vulnerabilityDetails.cvss3, "severity"),
                          vector |-> Field(vulnerabilityDetails.cvss3, "vector")]
                    ELSE JsUndefined,
          remediationStatus |-> Field(vulnerabilityDetails, "remediationStatus"),
          cweId |-> Field(vulnerabilityDetails, "cweId")]

buildComponentInfo(upgradeGuidance, dependencyType) ==
    [name |-> Field(upgradeGuidance, "componentName"),
     currentVersion |-> Field(upgradeGuidance, "versionName"),
     dependencyType |-> dependencyType,
     originId |-> Field(upgradeGuidance, "originExternalId")]

\* One horizon of the fix-guidance section; calculateRiskReduction throws on
\* a horizon that carries no vulnerabilityRisk.
HorizonSection(upgradeGuidance, h, label) ==
    IF HorizonTruthy(upgradeGuidance, h)
    THEN LET rec == upgradeGuidance[h]
         IN  IF "vulnerabilityRisk" \notin DOMAIN rec
             THEN Throw(TypeError(<<"Cannot read properties of undefined">>))
             ELSE Return([recommendedVersion |-> Field(rec, "versionName"),
                          vulnerabilitiesRemaining |-> rec.vulnerabilityRisk,
                          riskReduction |->
                              calculateRiskReduction(rec.vulnerabilityRisk),
                          originId |-> Field(rec, "originExternalId")])
    ELSE Return([available |-> FALSE,
                 message |-> <<"No ", label, " fix available">>])

\* Mutation of buildFixGuidanceSection: the long-term block is built with
\* the short-term message.
buildFixGuidanceSectionOneLabel(upgradeGuidance) ==
    LET shortTerm == HorizonSection(upgradeGuidance, "shortTerm", "short-term")
        longTerm == HorizonSection(upgradeGuidance, "longTerm", "short-term")
    IN  IF shortTerm.threw THEN shortTerm
        ELSE IF longTerm.threw THEN longTerm
        ELSE Return([shortTerm |-> shortTerm.value, longTerm |-> longTerm.value])

buildFixGuidanceSection(upgradeGuidance) ==
    LET shortTerm == HorizonSection(upgradeGuidance, "shortTerm", "short-term")
        longTerm == HorizonSection(upgradeGuidance, "longTerm", "long-term")
    IN  IF shortTerm.threw THEN shortTerm
        ELSE IF longTerm.threw THEN longTerm
        ELSE Return([shortTerm |-> shortTerm.value, longTerm |-> longTerm.value])

generateNoFixActionSteps ==
    << <<"This vulnerability is NOT FIXABLE by upgrading the component.">>,
       <<"No short-term or long-term fix is available from the component maintainers.">>,
       <<"Consider these alternative remediation strategies:">>,
       <<"  - Apply security patches or workarounds if available">>,
       <<"  - Implement additional security controls to mitigate the risk">>,
       <<"  - Consider replacing the component with a secure alternative">>,
       <<"  - Accept the risk if it's deemed acceptable for your use case">> >>

\* Mutation of HorizonStep: the entry of a horizon without a recommendation
\* is always null, which filter(Boolean) removes.
HorizonStepOmitting(upgradeGuidance, h, hasFix, line, label) ==
    IF HorizonTruthy(upgradeGuidance, h) THEN << line >> ELSE <<>>

\* The per-horizon entry of a steps array before filter(Boolean): a one-line
\* array, or the empty array for null.
HorizonStep(upgradeGuidance, h, hasFix, line, label) ==
    IF HorizonTruthy(upgradeGuidance, h) THEN << line >>
    ELSE IF hasFix = FALSE THEN << <<"  - ", label, ": No fix available">> >>
    ELSE <<>>

generateDirectDependencyActionSteps(upgradeGuidance, hasShortTermFix, hasLongTermFix) ==
    LET line(h, label) ==
            <<"  - ", label, ": ">> \o Interp(Field(upgradeGuidance[h], "versionName"))
              \o <<" (", ToString(getTotalVulnerabilities(
                                    upgradeGuidance[h].vulnerabilityRisk)),
                   " vulnerabilities remaining)">>
    IN  << <<"Update your dependency to one of the recommended versions:">> >>
          \o HorizonStep(upgradeGuidance, "shortTerm", hasShortTermFix,
                         line("shortTerm", "Short-term"), "Short-term")
          \o HorizonStep(upgradeGuidance, "longTerm", hasLongTermFix,
                         line("longTerm", "Long-term"), "Long-term")
          \o << <<"Update your package manager configuration (e.g., package.json, pom.xml, etc.)">>,
                <<"Run your package manager's install/update command">>,
                <<"Test your application to ensure compatibility">>,
                <<"Scan again with Black Duck to verify the vulnerability is resolved">> >>

generateTransitiveDependencyActionSteps(upgradeGuidance, hasShortTermFix, hasLongTermFix) ==
    LET line(h, label) ==
            <<"  - ", label, " parent version: Check which direct dependency needs updating to get ">>
              \o Interp(Field(upgradeGuidance[h], "versionName"))
    IN  << <<"This is a TRANSITIVE dependency. To fix:">>,
           <<"Update the parent/direct dependency that includes this component:">> >>
          \o HorizonStep(upgradeGuidance, "shortTerm", hasShortTermFix,
                         line("shortTerm", "Short-term"), "Short-term")
          \o HorizonStep(upgradeGuidance, "longTerm", hasLongTermFix,
                         line("longTerm", "Long-term"), "Long-term")
          \o << <<"The transitive component will be automatically upgraded when you update the parent">>,
                <<"Run your package manager's install/update command">>,
                <<"Test your application to ensure compatibility">>,
                <<"Scan again with Black Duck to verify the vulnerability is resolved">> >>

\* Mutation of generateActionSteps: the dependency type is tested before
\* the availability of a fix.
generateActionStepsByType(dependencyType, upgradeGuidance, fixAvailability) ==
    IF dependencyType = "TRANSITIVE"
    THEN generateTransitiveDependencyActionSteps(upgradeGuidance,
             fixAvailability.hasShortTermFix, fixAvailability.hasLongTermFix)
    ELSE IF ~fixAvailability.hasAnyFix THEN generateNoFixActionSteps
    ELSE generateDirectDependencyActionSteps(upgradeGuidance,
             fixAvailability.hasShortTermFix, fixAvailability.hasLongTermFix)

generateActionSteps(dependencyType, upgradeGuidance, fixAvailability) ==
    IF ~fixAvailability.hasAnyFix THEN generateNoFixActionSteps
    ELSE IF dependencyType = "DIRECT"
    THEN generateDirectDependencyActionSteps(upgradeGuidance,
             fixAvailability.hasShortTermFix, fixAvailability.hasLongTermFix)
    ELSE generateTransitiveDependencyActionSteps(upgradeGuidance,
             fixAvailability.hasShortTermFix, fixAvailability.hasLongTermFix)

\* Mutation of generateRecommendation: with one horizon the advice names
\* the long-term horizon first.
generateRecommendationLongFirst(upgradeGuidance, fixAvailability) ==
    IF ~fixAvailability.hasAnyFix
    THEN <<"This vulnerability cannot be fixed by upgrading. Consider alternative remediation strategies such as applying security patches, implementing mitigating controls, or replacing the component.">>
    ELSE IF HorizonTruthy(upgradeGuidance, "shortTerm")
            /\ HorizonTruthy(upgradeGuidance, "longTerm")
    THEN generateComparisonRecommendation(upgradeGuidance.shortTerm,
                                          upgradeGuidance.longTerm)
    ELSE IF HorizonTruthy(upgradeGuidance, "shortTerm")
    THEN <<"Only long-term fix available. Upgrade to ">>
           \o Interp(Field(upgradeGuidance.shortTerm, "versionName")) \o <<".">>
    ELSE IF HorizonTruthy(upgradeGuidance, "longTerm")
    THEN <<"Only long-term fix available. Upgrade to ">>
           \o Interp(Field(upgradeGuidance.longTerm, "versionName")) \o <<".">>
    ELSE <<>>

generateRecommendation(upgradeGuidance, fixAvailability) ==
    IF ~fixAvailability.hasAnyFix
    THEN <<"This vulnerability cannot be fixed by upgrading. Consider alternative remediation strategies such as applying security patches, implementing mitigating controls, or replacing the component.">>
    ELSE IF HorizonTruthy(upgradeGuidance, "shortTerm")
            /\ HorizonTruthy(upgradeGuidance, "longTerm")
    THEN generateComparisonRecommendation(upgradeGuidance.shortTerm,
                                          upgradeGuidance.longTerm)
    ELSE IF HorizonTruthy(upgradeGuidance, "shortTerm")
    THEN <<"Only short-term fix available. Upgrade to ">>
           \o Interp(Field(upgradeGuidance.shortTerm, "versionName")) \o <<".">>
    ELSE IF HorizonTruthy(upgradeGuidance, "longTerm")
    THEN <<"Only long-term fix available. Upgrade to ">>
           \o Interp(Field(upgradeGuidance.longTerm, "versionName")) \o <<".">>
    ELSE <<>>

\* buildResponse reads upgradeGuidance.shortTerm first (getFixAvailability):
\* a null or undefined payload throws there; a horizon without risk counts
\* throws in buildFixGuidanceSection, before the steps are generated.
buildResponse(vulnerabilityId, vulnerabilityDetails, dependencyType, upgradeGuidance) ==
    IF upgradeGuidance = JsNull
    THEN Throw(TypeError(<<"Cannot read properties of null (reading 'shortTerm')">>))
    ELSE IF upgradeGuidance = JsUndefined
    THEN Throw(TypeError(<<"Cannot read properties of undefined (reading 'shortTerm')">>))
    ELSE LET fixAvailability == getFixAvailability(upgradeGuidance)
             fixGuidance == buildFixGuidanceSection(upgradeGuidance)
         IN  IF fixGuidance.threw THEN fixGuidance
             ELSE Return(
                 [vulnerability |->
                      buildVulnerabilityInfo(vulnerabilityId, vulnerabilityDetails),
                  component |-> buildComponentInfo(upgradeGuidance, dependencyType),
                  fixGuidance |-> fixGuidance.value,
                  actionSteps |-> generateActionSteps(dependencyType, upgradeGuidance,
                                                      fixAvailability),
                  recommendation |-> generateRecommendation(upgradeGuidance,
                                                            fixAvailability)])

\* JSON.stringify leaves out every key whose value is undefined.
DropUndefined(o, stringKeys) ==
    [k \in {j \in DOMAIN o : ~(j \in stringKeys /\ o[j] = UNDEF)} |-> o[k]]

StringifyVulnerability(v) ==
    IF "note" \in DOMAIN v THEN DropUndefined(v, {"name"})
    ELSE LET kept == DropUndefined(v, {"name", "baseScore", "remediationStatus", "cweId"})
             keys == IF v.cvss3 = JsUndefined THEN DOMAIN kept \ {"cvss3"}
                     ELSE DOMAIN kept
         IN  [k \in keys |->
                 IF k = "cvss3"
                 THEN DropUndefined(v.cvss3, {"baseScore", "severity", "vector"})
                 ELSE kept[k]]

StringifyHorizon(h) ==
    IF "available" \in DOMAIN h THEN h
    ELSE DropUndefined(h, {"recommendedVersion", "originId"})

\* JSON.stringify(result, null, 2), as the JSON value the text denotes.
JSONstringify(result) ==
    [vulnerability |-> StringifyVulnerability(result.vulnerability),
     component |-> DropUndefined(result.component,
                                 {"name", "currentVersion", "originId"}),
     fixGuidance |-> [shortTerm |-> StringifyHorizon(result.fixGuidance.shortTerm),
                      longTerm |-> StringifyHorizon(result.fixGuidance.longTerm)],
     actionSteps |-> result.actionSteps,
     recommendation |-> result.recommendation]

\* Mutation of Settle: the response is built after the try block, so what
\* buildResponse throws is not caught.
SettleUnguarded(completion) ==
    IF completion.threw
    THEN IF completion.error.name = "TypeError"
         THEN [kind |-> "rejected", body |-> completion.error.message]
         ELSE [kind |-> "text", body |-> formatErrorForMCP(completion.error)]
    ELSE [kind |-> "json", body |-> JSONstringify(completion.value)]

\* How getVulnerabilityFixGuidance settles, given the completion of the body
\* of its try block: the catch clause turns whatever was thrown into text.
\* kind "rejected" would be an exception that escapes to the caller.
Settle(completion) ==
    IF completion.threw
    THEN [kind |-> "text", body |-> formatErrorForMCP(completion.error)]
    ELSE [kind |-> "json", body |-> JSONstringify(completion.value)]

(***************************************************************************)
(* Inputs: the caller's parameters and what the collaborators can answer.  *)
(***************************************************************************)
ValidParams ==
    [projectId |-> <<"P0">>, projectVersionId |-> <<"PV0">>,
     componentId |-> <<"C0">>, componentVersionId |-> <<"CV0">>,
     vulnerabilityId |-> <<"CVE-2023-1234">>, originId |-> <<"O0">>]

FieldShapes == {"undefined", "empty", "blank", "valid"}

\* Every field is missing, empty, blank or an identifier.
ParamChoices ==
    {[f \in Fields |->
        CASE c[f] = "undefined" -> UNDEF
          [] c[f] = "empty" -> EMPTY
          [] c[f] = "blank" -> BLANK
          [] OTHER -> ValidParams[f]] : c \in [Fields -> FieldShapes]}

\* Remediation details, as getVulnerabilityRemediation returns them.
FullDetails ==
    [vulnerabilityName |-> <<"CVE-2023-1234">>, severity |-> <<"HIGH">>,
     baseScore |-> <<"7.5">>, description |-> <<"d", "e", "s", "c">>,
     cvss3 |-> [baseScore |-> <<"7.5">>, severity |-> <<"HIGH">>,
                vector |-> <<"CVSS:3.1">>],
     remediationStatus |-> <<"NEW">>, cweId |-> <<"CWE-502">>]

SparseDetails == [vulnerabilityName |-> <<"CVE-2023-1234">>]

ContextReplies ==
    {Throw(e) : e \in CollaboratorErrors}
        \cup {Return(d) : d \in {FullDetails, SparseDetails, JsNull}}

\* The text "/t1/t2/..." of the tokens t1, t2, ...
RECURSIVE SlashJoin(_)
SlashJoin(tokens) ==
    IF tokens = <<>> THEN <<>>
    ELSE <<"/">> \o Head(tokens) \o SlashJoin(Tail(tokens))

HrefDirect ==
    SlashJoin(<< <<"api">>, <<"components">>, <<"C1">>, <<"versions">>, <<"V1">>,
                 <<"upgrade-guidance">> >>)
HrefTransitive ==
    SlashJoin(<< <<"api">>, <<"components">>, <<"C2">>, <<"versions">>, <<"V2">>,
                 <<"origins">>, <<"O2">>, <<"transitive-upgrade-guidance">> >>)
HrefNoVersions ==
    SlashJoin(<< <<"api">>, <<"components">>, <<"C1">>, <<"upgrade-guidance">> >>)
HrefNoComponents ==
    SlashJoin(<< <<"api">>, <<"versions">>, <<"V2">>, <<"origins">>, <<"O2">>,
                 <<"transitive-upgrade-guidance">> >>)
HrefNoOrigins ==
    SlashJoin(<< <<"api">>, <<"components">>, <<"C3">>, <<"versions">>, <<"V3">>,
                 <<"transitive-upgrade-guidance">> >>)

Link(rel, href) == [rel |-> rel, href |-> href]
Node(links) == [name |-> <<"lib">>, meta |-> [links |-> links]]

\* Dependency-path nodes: without _meta, with both guidance links, with links
\* that lack a segment, with a transitive link that names no origin, and null.
NodePlain == [name |-> <<"app">>]
NodeGood ==
    Node(<<Link("self", HrefNoOrigins), Link("upgrade-guidance", HrefDirect),
           Link("transitive-upgrade-guidance", HrefTransitive)>>)
NodeMalformed ==
    Node(<<Link("upgrade-guidance", HrefNoVersions),
           Link("transitive-upgrade-guidance", HrefNoComponents)>>)
NodeNoOrigins == Node(<<Link("transitive-upgrade-guidance", HrefNoOrigins)>>)
NodeDirectOnly == Node(<<Link("upgrade-guidance", HrefDirect)>>)

PathNodes ==
    {NodePlain, NodeGood, NodeMalformed, NodeNoOrigins, NodeDirectOnly, JsNull}

DependencyTypes == {"DIRECT", "TRANSITIVE"}

SeqsUpTo(S, n) == UNION {[1..k -> S] : k \in 0..n}

\* DependencyPathItem: a type and a path, or a type alone.
PathItems ==
    {[type |-> t, path |-> path] :
        t \in DependencyTypes, path \in SeqsUpTo(PathNodes, MaxPathLen)}
        \cup {[type |-> t] : t \in DependencyTypes}

\* The items that follow the first one in a response.
LaterItems ==
    {[type |-> t, path |-> path] :
        t \in DependencyTypes, path \in {<<>>, <<NodeGood, NodePlain>>}}

ItemLists ==
    {<<>>} \cup {<<first>> \o rest :
                    first \in PathItems, rest \in SeqsUpTo(LaterItems, MaxItems - 1)}

\* What getDependencyPaths completes with: an error, a body without items,
\* an empty body, or a page of items.
PathsReplies ==
    {Throw(e) : e \in CollaboratorErrors}
        \cup {Return(JsNull), Return([totalCount |-> 0])}
        \cup {Return([totalCount |-> Len(items), items |-> items]) :
                 items \in ItemLists}

\* Remaining-risk profiles of an upgrade recommendation.
RiskProfiles ==
    {[critical |-> 0, high |-> 0, medium |-> 0, low |-> 0],
     [critical |-> 0, high |-> 0, medium |-> 2, low |-> 1],
     [critical |-> 1, high |-> 0, medium |-> 2, low |-> 0]}

\* UpgradeRecommendation for a version, and one without its risk counts.
Recommendations(version) ==
    {[versionName |-> version, vulnerabilityRisk |-> r,
      originExternalId |-> <<"org.lib:lib:">> \o version] : r \in RiskProfiles}
        \cup {[versionName |-> version]}

\* A horizon of the payload: the key is missing, null, or a recommendation.
HorizonChoices(version) ==
    {JsUndefined, JsNull} \cup Recommendations(version)

GuidanceBase ==
    [componentName |-> <<"lib">>, versionName |-> <<"2.14.0">>,
     originExternalId |-> <<"org.lib:lib:2.14.0">>]

WithHorizon(g, h, v) ==
    IF v = JsUndefined THEN g
    ELSE [k \in DOMAIN g \cup {h} |-> IF k = h THEN v ELSE g[k]]

GuidancePayloads ==
    {WithHorizon(WithHorizon(GuidanceBase, "shortTerm", st), "longTerm", lt) :
        st \in HorizonChoices(<<"2.17.0">>), lt \in HorizonChoices(<<"2.20.0">>)}
        \cup {JsNull}

GuidanceReplies ==
    {Throw(e) : e \in CollaboratorErrors}
        \cup {Return(g) : g \in GuidancePayloads}

(***************************************************************************)
(* One invocation of getVulnerabilityFixGuidance.  The handler runs between *)
(* its await points: each action is the code from one completion to the    *)
(* next call.                                                              *)
(***************************************************************************)
VARIABLES
    pc,                   \* where the invocation stands
    params,               \* the caller's GetVulnerabilityFixGuidanceParams
    calls,                \* collaborator calls issued so far, in order
    vulnerabilityDetails, \* the local of line 44
    contextFailed,        \* whether getVulnerabilityRemediation rejected
    dependencyPaths,      \* the completion of getDependencyPaths (line 124),
                          \*   kept until the invocation settles
    pathsOutcome,         \* how getDependencyPaths completed
    firstItem,            \* items[0] of its response, when there is one
    dependencyAnalysis,   \* the local of line 47
    guidanceReply,        \* the completion of the guidance call
    output,               \* what the invocation settled with
    exType,               \* extraction alone: the classification given
    exItem,               \*   the path item given
    exResult,             \*   the completion of extractComponentIdsFromPath
    brType,               \* buildResponse alone: its dependencyType
    brDetails,            \*   its vulnerabilityDetails
    brGuidance,           \*   its upgradeGuidance
    brResult,             \*   what the invocation settles with from there
    rrRisks,              \* risk aggregation alone: the remaining risks
    rrResult,             \*   their total and their description
    tasks,                \* concurrent invocations: the locals of each
    srvPc,                \* the MCP server: where the request handler stands
    srvRequest,           \*   the request it handles
    srvResponse,          \*   what it answers
    srvPuts,              \*   the remediation updates (PUT) sent so far
    srvRemote,            \*   the remediation status the platform holds
    cachedBearerToken,    \* auth.ts: the cached bearer token, or null
    tokenExpiry,          \*   its expiry
    now,                  \*   Date.now(), in minutes
    issued,               \*   bearer tokens the platform has issued so far
    authCalls             \*   calls of authenticateAndGetBearerToken

vars ==
    <<pc, params, calls, vulnerabilityDetails, contextFailed, dependencyPaths,
      pathsOutcome, firstItem, dependencyAnalysis, guidanceReply, output,
      exType, exItem, exResult, brType, brDetails, brGuidance, brResult,
      rrRisks, rrResult, tasks, srvPc, srvRequest, srvResponse, srvPuts,
      srvRemote, cachedBearerToken, tokenExpiry, now, issued, authCalls>>

pipelineVars ==
    <<pc, params, calls, vulnerabilityDetails, contextFailed, dependencyPaths,
      pathsOutcome, firstItem, dependencyAnalysis, guidanceReply, output>>

extractionVars == <<exType, exItem, exResult>>

responseVars == <<brType, brDetails, brGuidance, brResult>>

riskVars == <<rrRisks, rrResult>>

serverVars == <<srvPc, srvRequest, srvResponse, srvPuts, srvRemote>>

authVars == <<cachedBearerToken, tokenExpiry, now, issued, authCalls>>

\* What concurrent invocations leave alone.
soloVars ==
    <<pipelineVars, extractionVars, responseVars, riskVars, serverVars, authVars>>

\* What the other specifications leave alone.
sideVars == <<responseVars, riskVars, tasks, serverVars, authVars>>

\* The server handles no request.
ServerIdle ==
    /\ srvPc = "idle"
    /\ srvRequest = JsUndefined
    /\ srvResponse = JsUndefined
    /\ srvPuts = <<>>
    /\ srvRemote = <<"NEW">>

\* Module load of auth.ts: nothing cached, nobody authenticating.
AuthIdle ==
    /\ cachedBearerToken = JsNull
    /\ tokenExpiry = 0
    /\ now = 1
    /\ issued = 0
    /\ authCalls = <<>>

\* No buildResponse, risk aggregation or concurrent invocation under way.
ResultIdle ==
    /\ brType = "DIRECT"
    /\ brDetails = JsUndefined
    /\ brGuidance = JsUndefined
    /\ brResult = JsUndefined
    /\ rrRisks = JsUndefined
    /\ rrResult = JsUndefined
    /\ tasks = <<>>

\* Only the pipeline and the extraction are under way.
SideIdle ==
    /\ ResultIdle
    /\ ServerIdle
    /\ AuthIdle

Call(fn, args) == [fn |-> fn, args |-> args]

NoOutput == [kind |-> "pending"]

Init ==
    /\ pc = "start"
    /\ params \in ParamChoices
    /\ calls = <<>>
    /\ vulnerabilityDetails = JsUndefined
    /\ contextFailed = FALSE
    /\ dependencyPaths = JsUndefined
    /\ pathsOutcome = "pending"
    /\ firstItem = JsUndefined
    /\ dependencyAnalysis = JsUndefined
    /\ guidanceReply = JsUndefined
    /\ output = NoOutput
    /\ exType = "DIRECT"
    /\ exItem = JsUndefined
    /\ exResult = JsUndefined
    /\ SideIdle

\* Lines 39-41, 66-68: validation throws and the catch clause settles.
RejectParameters ==
    /\ pc = "start"
    /\ validateParameters(params).threw
    /\ output' = Settle(validateParameters(params))
    /\ pc' = "done"
    /\ UNCHANGED <<params, calls, vulnerabilityDetails, contextFailed,
                   dependencyPaths, pathsOutcome, firstItem, dependencyAnalysis,
                   guidanceReply>>
    /\ UNCHANGED extractionVars
    /\ UNCHANGED sideVars

\* Lines 39-44, 95-105: validation passes and the context lookup is issued.
BeginPipeline ==
    /\ pc = "start"
    /\ ~validateParameters(params).threw
    /\ calls' = Append(calls,
                       Call("getVulnerabilityRemediation",
                            <<params.projectId, params.projectVersionId,
                              params.componentId, params.componentVersionId,
                              params.vulnerabilityId>>))
    /\ pc' = "awaitContext"
    /\ UNCHANGED <<params, vulnerabilityDetails, contextFailed, dependencyPaths,
                   pathsOutcome, firstItem, dependencyAnalysis, guidanceReply, output>>
    /\ UNCHANGED extractionVars
    /\ UNCHANGED sideVars

\* The call analyzeDependencyType issues (lines 124-128).
PathsCall(p) ==
    Call("getDependencyPaths", <<p.projectId, p.projectVersionId, p.originId>>)

\* Mutation of ContextCompletes: fetchVulnerabilityContext without its own
\* try/catch, so a rejected lookup reaches the outer catch clause.
ContextCompletesAborting(reply) ==
    /\ vulnerabilityDetails' = IF reply.threw THEN JsUndefined ELSE reply.value
    /\ contextFailed' = reply.threw
    /\ IF reply.threw
       THEN /\ output' = [kind |-> "text", body |-> formatErrorForMCP(reply.error)]
            /\ pc' = "done"
            /\ UNCHANGED calls
       ELSE /\ calls' = Append(calls, PathsCall(params))
            /\ pc' = "awaitPaths"
            /\ UNCHANGED output
    /\ UNCHANGED <<params, dependencyPaths, pathsOutcome, firstItem,
                   dependencyAnalysis, guidanceReply>>
    /\ UNCHANGED extractionVars
    /\ UNCHANGED sideVars

\* Mutation of ContextCompletes: a rejected context lookup is issued once
\* more before the pipeline moves on.
ContextCompletesRetrying(reply) ==
    IF reply.threw /\ Len(calls) < 2
    THEN /\ calls' = Append(calls, calls[1])
         /\ UNCHANGED <<pc, params, vulnerabilityDetails, contextFailed,
                        dependencyPaths, pathsOutcome, firstItem,
                        dependencyAnalysis, guidanceReply, output>>
         /\ UNCHANGED extractionVars
         /\ UNCHANGED sideVars
    ELSE /\ vulnerabilityDetails' = IF reply.threw THEN JsUndefined ELSE reply.value
         /\ contextFailed' = reply.threw
         /\ calls' = Append(calls, PathsCall(params))
         /\ pc' = "awaitPaths"
         /\ UNCHANGED <<params, dependencyPaths, pathsOutcome, firstItem,
                        dependencyAnalysis, guidanceReply, output>>
         /\ UNCHANGED extractionVars
         /\ UNCHANGED sideVars

\* Lines 99-109, then 118-128: the context lookup completes (a rejection is
\* swallowed) and the dependency-path lookup is issued.
ContextCompletes(reply) ==
    /\ vulnerabilityDetails' = IF reply.threw THEN JsUndefined ELSE reply.value
    /\ contextFailed' = reply.threw
    /\ calls' = Append(calls, PathsCall(params))
    /\ pc' = "awaitPaths"
    /\ UNCHANGED <<params, dependencyPaths, pathsOutcome, firstItem,
                   dependencyAnalysis, guidanceReply, output>>
    /\ UNCHANGED extractionVars
    /\ UNCHANGED sideVars

\* How a completion of getDependencyPaths is classified.
OutcomeOf(reply) ==
    IF reply.threw THEN "failed"
    ELSE IF reply.value = JsNull THEN "nobody"
    ELSE IF "items" \notin DOMAIN reply.value THEN "noitems"
    ELSE IF Len(reply.value.items) = 0 THEN "empty"
    ELSE "items"

\* Lines 130-153, then 50-55 and 160-174: the dependency-path lookup
\* completes, the analysis is made and the guidance call is issued.
PathsComplete(reply) ==
    /\ dependencyPaths' = reply
    /\ pathsOutcome' = OutcomeOf(reply)
    /\ firstItem' = IF OutcomeOf(reply) = "items" THEN reply.value.items[1]
                    ELSE JsUndefined
    /\ dependencyAnalysis' = analyzeDependencyType(params, reply)
    /\ calls' = Append(calls,
                       fetchUpgradeGuidance(
                           dependencyAnalysis'.dependencyType,
                           dependencyAnalysis'.guidanceComponentId,
                           dependencyAnalysis'.guidanceComponentVersionId,
                           dependencyAnalysis'.guidanceOriginId))
    /\ pc' = "awaitGuidance"
    /\ UNCHANGED <<params, vulnerabilityDetails, contextFailed, guidanceReply, output>>
    /\ UNCHANGED extractionVars
    /\ UNCHANGED sideVars

\* Mutation of FinishBody: a rejected guidance call is swallowed like the
\* other two and the response is built from a payload without horizons.
FinishBodySwallowing(reply) ==
    buildResponse(params.vulnerabilityId, vulnerabilityDetails,
                  dependencyAnalysis.dependencyType,
                  IF reply.threw THEN GuidanceBase ELSE reply.value)

\* The body of the try block from the guidance completion on (lines 50-65).
FinishBody(reply) ==
    IF reply.threw THEN reply
    ELSE buildResponse(params.vulnerabilityId, vulnerabilityDetails,
                       dependencyAnalysis.dependencyType, reply.value)

\* Lines 57-68: the guidance call completes and the invocation settles.
GuidanceCompletes(reply) ==
    /\ guidanceReply' = reply
    /\ \E body \in {FinishBody(reply)} : output' = Settle(body)
    /\ dependencyPaths' = JsUndefined
    /\ pc' = "done"
    /\ UNCHANGED <<params, calls, vulnerabilityDetails, contextFailed, pathsOutcome,
                   firstItem, dependencyAnalysis>>
    /\ UNCHANGED extractionVars
    /\ UNCHANGED sideVars

ContextStep ==
    /\ pc = "awaitContext"
    /\ \E reply \in ContextReplies : ContextCompletes(reply)

PathsStep ==
    /\ pc = "awaitPaths"
    /\ \E reply \in PathsReplies : PathsComplete(reply)

GuidanceStep ==
    /\ pc = "awaitGuidance"
    /\ \E reply \in GuidanceReplies : GuidanceCompletes(reply)

Next ==
    \/ RejectParameters
    \/ BeginPipeline
    \/ ContextStep
    \/ PathsStep
    \/ GuidanceStep

Spec == Init /\ [][Next]_vars

\* Every call completes: the HTTP client enforces a timeout on each request.
FairSpec == Spec /\ WF_vars(Next)

(***************************************************************************)
(* Identifier extraction on its own: extractComponentIdsFromPath applied   *)
(* to a path item and a classification.                                    *)
(***************************************************************************)
\* A segment, alone or with the token that follows it.
HrefUnits ==
    {<< <<>> >>, << <<"X">> >>,
     << <<"components">> >>, << <<"components">>, <<"C9">> >>,
     << <<"versions">> >>, << <<"versions">>, <<"V9">> >>,
     << <<"origins">> >>, << <<"origins">>, <<"O9">> >>}

RECURSIVE Flatten(_)
Flatten(seqs) == IF seqs = <<>> THEN <<>> ELSE Head(seqs) \o Flatten(Tail(seqs))

\* The hrefs made of at most MaxHrefUnits units.
Hrefs == {SlashJoin(Flatten(units)) : units \in SeqsUpTo(HrefUnits, MaxHrefUnits)}

\* Nodes that carry href h: as the first of two upgrade-guidance links, and
\* as the transitive link.
NodesWith(h) ==
    {Node(<<Link("self", HrefTransitive), Link("upgrade-guidance", h),
            Link("upgrade-guidance", HrefDirect)>>),
     Node(<<Link("upgrade-guidance", HrefDirect),
            Link("transitive-upgrade-guidance", h)>>)}

\* A node whose guidance links have no usable href.
NodeNoHref ==
    Node(<<Link("upgrade-guidance", UNDEF),
           Link("transitive-upgrade-guidance", EMPTY)>>)

\* A path of n nodes with the given node second to last.
PathAround(node, n) == [i \in 1..n |-> IF i = n - 1 THEN node ELSE NodeGood]

ExtractionItems ==
    PathItems
        \cup {[type |-> "DIRECT", path |-> PathAround(node, n)] :
                 node \in {NodeNoHref} \cup UNION {NodesWith(h) : h \in Hrefs},
                 n \in 2..MaxPathLen}

ExtractInit ==
    /\ pc = "extract"
    /\ params = ValidParams
    /\ calls = <<>>
    /\ vulnerabilityDetails = JsUndefined
    /\ contextFailed = FALSE
    /\ dependencyPaths = JsUndefined
    /\ pathsOutcome = "pending"
    /\ firstItem = JsUndefined
    /\ dependencyAnalysis = JsUndefined
    /\ guidanceReply = JsUndefined
    /\ output = NoOutput
    /\ exType \in DependencyTypes
    /\ exItem \in ExtractionItems
    /\ exResult = JsUndefined
    /\ SideIdle

ApplyExtraction ==
    /\ pc = "extract"
    /\ exResult = JsUndefined
    /\ exResult' = extractComponentIdsFromPath(exItem, exType)
    /\ UNCHANGED <<exType, exItem>>
    /\ UNCHANGED pipelineVars
    /\ UNCHANGED sideVars

ExtractNext == ApplyExtraction

SpecExtract == ExtractInit /\ [][ExtractNext]_vars

(***************************************************************************)
(* The response on its own: buildResponse and JSON.stringify applied to a  *)
(* classification, the context and a guidance payload, settled as the      *)
(* invocation settles.                                                     *)
(***************************************************************************)
\* The invocation's own state while a function is applied on its own.
PipelineIdle(at) ==
    /\ pc = at
    /\ params = ValidParams
    /\ calls = <<>>
    /\ vulnerabilityDetails = JsUndefined
    /\ contextFailed = FALSE
    /\ dependencyPaths = JsUndefined
    /\ pathsOutcome = "pending"
    /\ firstItem = JsUndefined
    /\ dependencyAnalysis = JsUndefined
    /\ guidanceReply = JsUndefined
    /\ output = NoOutput

ExtractionIdle ==
    /\ exType = "DIRECT"
    /\ exItem = JsUndefined
    /\ exResult = JsUndefined

\* VulnerabilityRiskCounts with every bucket 0 or 1.
ResponseRisks == [critical : 0..1, high : 0..1, medium : 0..1, low : 0..1]

\* A horizon of the payload: the key is missing, null, a recommendation
\* without risk counts, or a recommendation.
ResponseHorizons(version) ==
    {JsUndefined, JsNull, [versionName |-> version]}
        \cup {[versionName |-> version, vulnerabilityRisk |-> r,
                originExternalId |-> <<"org.lib:lib:">> \o version] :
                  r \in ResponseRisks}

ResponsePayloads ==
    {WithHorizon(WithHorizon(GuidanceBase, "shortTerm", st), "longTerm", lt) :
        st \in ResponseHorizons(<<"2.17.0">>), lt \in ResponseHorizons(<<"2.20.0">>)}
        \cup {JsNull}

\* A description of n characters, one character per element.
DescriptionText(n) == [i \in 1..n |-> ToString(i % 10)]

DescriptionLengths ==
    {0, 1, DescriptionLimit - 1, DescriptionLimit, DescriptionLimit + 1,
     DescriptionLimit + 3, DescriptionLimit + 4, 2 * DescriptionLimit}

\* What the context step can leave: nothing, null, details without the
\* optional fields, details with a description of each length.
DetailChoices ==
    {JsUndefined, JsNull, SparseDetails}
        \cup {[FullDetails EXCEPT !.description = DescriptionText(n)] :
                 n \in DescriptionLengths}

\* Every context with one payload, and every payload with two contexts.
ResponseInputs ==
    (DetailChoices
        \X {WithHorizon(GuidanceBase, "shortTerm",
                        [versionName |-> <<"2.17.0">>,
                         vulnerabilityRisk |-> [critical |-> 0, high |-> 0,
                                                medium |-> 0, low |-> 0],
                         originExternalId |-> <<"org.lib:lib:2.17.0">>])})
        \cup ({FullDetails, JsUndefined} \X ResponsePayloads)

ResponseInit ==
    /\ PipelineIdle("response")
    /\ ExtractionIdle
    /\ brType \in DependencyTypes
    /\ \E input \in ResponseInputs :
           brDetails = input[1] /\ brGuidance = input[2]
    /\ brResult = JsUndefined
    /\ rrRisks = JsUndefined
    /\ rrResult = JsUndefined
    /\ tasks = <<>>
    /\ ServerIdle
    /\ AuthIdle

\* Lines 57-68: the response is built, serialised and returned, or what
\* building it throws is caught and formatted.
ApplyResponse ==
    /\ pc = "response"
    /\ brResult = JsUndefined
    /\ brResult' = Settle(buildResponse(params.vulnerabilityId, brDetails,
                                        brType, brGuidance))
    /\ UNCHANGED <<brType, brDetails, brGuidance>>
    /\ UNCHANGED <<pipelineVars, extractionVars, riskVars, tasks>>
    /\ UNCHANGED <<serverVars, authVars>>

ResponseNext == ApplyResponse

SpecResponse == ResponseInit /\ [][ResponseNext]_vars

(***************************************************************************)
(* Risk aggregation on its own: getTotalVulnerabilities and                *)
(* calculateRiskReduction applied to remaining-risk counts.                *)
(***************************************************************************)
\* VulnerabilityRiskCounts with every bucket at most MaxCount.
RiskCounts ==
    [critical : 0..MaxCount, high : 0..MaxCount,
     medium : 0..MaxCount, low : 0..MaxCount]

RiskInit ==
    /\ PipelineIdle("risk")
    /\ ExtractionIdle
    /\ brType = "DIRECT"
    /\ brDetails = JsUndefined
    /\ brGuidance = JsUndefined
    /\ brResult = JsUndefined
    /\ rrRisks \in RiskCounts
    /\ rrResult = JsUndefined
    /\ tasks = <<>>
    /\ ServerIdle
    /\ AuthIdle

ApplyRisk ==
    /\ pc = "risk"
    /\ rrResult = JsUndefined
    /\ rrResult' = [total |-> getTotalVulnerabilities(rrRisks),
                    riskReduction |-> calculateRiskReduction(rrRisks)]
    /\ UNCHANGED rrRisks
    /\ UNCHANGED <<pipelineVars, extractionVars, responseVars, tasks>>
    /\ UNCHANGED <<serverVars, authVars>>

RiskNext == ApplyRisk

SpecRisk == RiskInit /\ [][RiskNext]_vars

(***************************************************************************)
(* Concurrent invocations.  getVulnerabilityFixGuidance is an async        *)
(* function: every value it computes is a local of the call (lines 44, 47, *)
(* 50, 118-121), and calls interleave at their await points.               *)
(***************************************************************************)
Invocations == 1..MaxInvocations

\* The parameters of invocation i: its own identifiers, with the origin
\* given or blank.
TaskParams(i) ==
    {[projectId |-> <<"P", ToString(i)>>, projectVersionId |-> <<"PV", ToString(i)>>,
      componentId |-> <<"C", ToString(i)>>, componentVersionId |-> <<"CV", ToString(i)>>,
      vulnerabilityId |-> <<"CVE-", ToString(i)>>, originId |-> o] :
          o \in {<<"O", ToString(i)>>, BLANK}}

TaskContextReplies ==
    {Throw(PlainError(<<"socket hang up">>)), Return(FullDetails)}

TaskPathsReplies ==
    {Throw(PlainError(<<"socket hang up">>)),
     Return([totalCount |-> 1, items |-> << [type |-> "DIRECT"] >>]),
     Return([totalCount |-> 1,
             items |-> << [type |-> "TRANSITIVE", path |-> <<NodeGood, NodePlain>>] >>])}

TaskGuidanceReplies ==
    {Throw(PlainError(<<"socket hang up">>)),
     Return(GuidanceBase),
     Return(WithHorizon(GuidanceBase, "shortTerm",
                        [versionName |-> <<"2.17.0">>,
                         vulnerabilityRisk |-> [critical |-> 0, high |-> 0,
                                                medium |-> 0, low |-> 0],
                         originExternalId |-> <<"org.lib:lib:2.17.0">>]))}

\* The locals of an invocation that has not run yet.
NewTask(p) ==
    [pc |-> "start", params |-> p, overlapped |-> FALSE,
     vulnerabilityDetails |-> JsUndefined, dependencyAnalysis |-> JsUndefined,
     guidanceCall |-> JsUndefined, contextReply |-> JsUndefined,
     pathsReply |-> JsUndefined, guidanceReply |-> JsUndefined,
     output |-> NoOutput]

InFlight(t) == t.pc \in {"awaitContext", "awaitPaths", "awaitGuidance"}

ConcurrentInit ==
    /\ PipelineIdle("concurrent")
    /\ ExtractionIdle
    /\ brType = "DIRECT"
    /\ brDetails = JsUndefined
    /\ brGuidance = JsUndefined
    /\ brResult = JsUndefined
    /\ rrRisks = JsUndefined
    /\ rrResult = JsUndefined
    /\ ServerIdle
    /\ AuthIdle
    /\ \E choice \in [Invocations -> {1, 2}] :
           tasks = [i \in Invocations |->
                       NewTask(CHOOSE p \in TaskParams(i) :
                                   (choice[i] = 1) <=> (p.originId = BLANK))]

\* Lines 39-41, 66-68 of invocation i.
TaskRejectParameters(i) ==
    /\ tasks[i].pc = "start"
    /\ validateParameters(tasks[i].params).threw
    /\ tasks' = [tasks EXCEPT ![i].output = Settle(validateParameters(tasks[i].params)),
                              ![i].pc = "done"]
    /\ UNCHANGED soloVars

\* Lines 39-44, 95-105 of invocation i.
TaskBeginPipeline(i) ==
    /\ tasks[i].pc = "start"
    /\ ~validateParameters(tasks[i].params).threw
    /\ tasks' = [tasks EXCEPT ![i].pc = "awaitContext",
                              ![i].overlapped =
                                  \E j \in Invocations \ {i} : InFlight(tasks[j])]
    /\ UNCHANGED soloVars

\* Lines 99-109, then 118-128 of invocation i.
TaskContextCompletes(i, reply) ==
    /\ tasks[i].pc = "awaitContext"
    /\ tasks' = [tasks EXCEPT ![i].contextReply = reply,
                              ![i].vulnerabilityDetails =
                                  IF reply.threw THEN JsUndefined ELSE reply.value,
                              ![i].pc = "awaitPaths"]
    /\ UNCHANGED soloVars

\* Mutation of TaskPathsComplete: the analysis is kept in a variable of the
\* module, which every invocation reads.
TaskPathsCompleteShared(i, reply) ==
    /\ tasks[i].pc = "awaitPaths"
    /\ LET analysis == analyzeDependencyType(tasks[i].params, reply)
       IN  tasks' = [j \in Invocations |->
                        IF j = i
                        THEN [tasks[j] EXCEPT
                                 !.pathsReply = reply,
                                 !.dependencyAnalysis = analysis,
                                 !.guidanceCall =
                                     fetchUpgradeGuidance(analysis.dependencyType,
                                         analysis.guidanceComponentId,
                                         analysis.guidanceComponentVersionId,
                                         analysis.guidanceOriginId),
                                 !.pc = "awaitGuidance"]
                        ELSE IF tasks[j].dependencyAnalysis = JsUndefined
                        THEN tasks[j]
                        ELSE [tasks[j] EXCEPT !.dependencyAnalysis = analysis]]
    /\ UNCHANGED soloVars

\* Lines 130-153, then 50-55 and 160-174 of invocation i.
TaskPathsComplete(i, reply) ==
    /\ tasks[i].pc = "awaitPaths"
    /\ LET analysis == analyzeDependencyType(tasks[i].params, reply)
       IN  tasks' = [tasks EXCEPT
                        ![i].pathsReply = reply,
                        ![i].dependencyAnalysis = analysis,
                        ![i].guidanceCall =
                            fetchUpgradeGuidance(analysis.dependencyType,
                                analysis.guidanceComponentId,
                                analysis.guidanceComponentVersionId,
                                analysis.guidanceOriginId),
                        ![i].pc = "awaitGuidance"]
    /\ UNCHANGED soloVars

\* Lines 57-68 of invocation i.
TaskGuidanceCompletes(i, reply) ==
    /\ tasks[i].pc = "awaitGuidance"
    /\ tasks' = [tasks EXCEPT
                     ![i].guidanceReply = reply,
                     ![i].output =
                         Settle(IF reply.threw THEN reply
                                ELSE buildResponse(tasks[i].params.vulnerabilityId,
                                         tasks[i].vulnerabilityDetails,
                                         tasks[i].dependencyAnalysis.dependencyType,
                                         reply.value)),
                     ![i].pc = "done"]
    /\ UNCHANGED soloVars

ConcurrentNext ==
    \E i \in Invocations :
        \/ TaskRejectParameters(i)
        \/ TaskBeginPipeline(i)
        \/ \E reply \in TaskContextReplies : TaskContextCompletes(i, reply)
        \/ \E reply \in TaskPathsReplies : TaskPathsComplete(i, reply)
        \/ \E reply \in TaskGuidanceReplies : TaskGuidanceCompletes(i, reply)

SpecConcurrent == ConcurrentInit /\ [][ConcurrentNext]_vars

(***************************************************************************)
(* Properties.  The definitions below state what is claimed of the code;   *)
(* they do not use the operators that model its functions.                 *)
(***************************************************************************)
Text(body) == [kind |-> "text", body |-> body]

\* A value that is missing, empty, or nothing but whitespace.
IsBlankValue(v) == v = UNDEF \/ \A i \in 1..Len(v) : v[i] = " "

SomeFieldBlank == \E f \in Fields : IsBlankValue(params[f])

DocumentedOrder ==
    <<"projectId", "projectVersionId", "componentId", "componentVersionId",
      "vulnerabilityId", "originId">>

\* The first field, in the documented order, that is blank.
FirstBlankField ==
    DocumentedOrder[CHOOSE i \in 1..Len(DocumentedOrder) :
                       /\ IsBlankValue(params[DocumentedOrder[i]])
                       /\ \A j \in 1..(i - 1) :
                             ~IsBlankValue(params[DocumentedOrder[j]])]

GuidanceFunctions == {"getUpgradeGuidance", "getTransitiveUpgradeGuidance"}

GuidanceCalls == {i \in 1..Len(calls) : calls[i].fn \in GuidanceFunctions}

Settled == pc = "done"

\* C1: with a missing or blank field the invocation issues no collaborator
\* call and settles with exactly "Error: <field> is required" for the first
\* such field in the order projectId, projectVersionId, componentId,
\* componentVersionId, vulnerabilityId, originId.
C1_BlankFieldRejected ==
    SomeFieldBlank =>
        /\ calls = <<>>
        /\ pc \in {"start", "done"}
        /\ Settled => output = Text(<<"Error", ": ", FirstBlankField, " is required">>)

C1_Witness ==
    /\ Settled
    /\ params.projectId = <<"P0">>
    /\ params.projectVersionId = <<"PV0">>
    /\ params.componentId = BLANK
    /\ params.vulnerabilityId = UNDEF
    /\ output = Text(<<"Error", ": ", "componentId", " is required">>)
    /\ calls = <<>>

ErrorKinds == BlackDuckErrorNames \cup {"Error", "Unknown error"}

\* C2: when the guidance call fails, the invocation settles with the text
\* "<ErrorKind>: <message>" of that failure and never with a JSON result,
\* whatever the context and dependency-path steps did.
C2_GuidanceFailureIsError ==
    (Settled /\ guidanceReply # JsUndefined /\ guidanceReply.threw) =>
        /\ output.kind = "text"
        /\ \E kind \in ErrorKinds :
              output.body = <<kind, ": ">> \o guidanceReply.error.message
        /\ guidanceReply.error.cls = "BlackDuckError" =>
              output.body = <<guidanceReply.error.name, ": ">>
                              \o guidanceReply.error.message

C2_Witness ==
    /\ Settled
    /\ ~contextFailed
    /\ pathsOutcome = "items"
    /\ guidanceReply # JsUndefined
    /\ guidanceReply.threw
    /\ output = Text(<<"NotFoundError", ": ", "upstream failure">>)

\* The guidance call for a DIRECT classification with the caller's identifiers.
DirectCallWithOriginals ==
    Call("getUpgradeGuidance", <<params.componentId, params.componentVersionId>>)

\* C3: when getDependencyPaths fails or returns zero items, the guidance
\* step runs with classification DIRECT and the caller's componentId,
\* componentVersionId and originId, and a result reports DIRECT.
C3_PathsFallback ==
    pathsOutcome \in {"failed", "empty"} =>
        /\ pc \in {"awaitGuidance", "done"}
        /\ dependencyAnalysis.dependencyType = "DIRECT"
        /\ dependencyAnalysis.guidanceComponentId = params.componentId
        /\ dependencyAnalysis.guidanceComponentVersionId = params.componentVersionId
        /\ dependencyAnalysis.guidanceOriginId = params.originId
        /\ Len(calls) = 3 /\ calls[3] = DirectCallWithOriginals
        /\ (Settled /\ output.kind = "json") =>
              output.body.component.dependencyType = "DIRECT"

C3_Witness ==
    /\ Settled
    /\ pathsOutcome = "failed"
    /\ calls[3] = Call("getUpgradeGuidance", <<<<"C0">>, <<"CV0">>>>)
    /\ output.kind = "json"
    /\ output.body.component.dependencyType = "DIRECT"

\* A guidance payload the result can be built from.
UsablePayload(g) ==
    /\ g # JsNull
    /\ \A h \in {"shortTerm", "longTerm"} :
          (h \in DOMAIN g /\ g[h] # JsNull) => "vulnerabilityRisk" \in DOMAIN g[h]

Placeholder ==
    [name |-> params.vulnerabilityId,
     note |-> <<"Could not fetch vulnerability details">>]

\* C4: a failure of getVulnerabilityRemediation does not abort the
\* invocation: the dependency-path and guidance calls are still issued, and
\* when guidance succeeds the result's vulnerability block is the placeholder
\* naming the caller's vulnerabilityId.
C4_ContextFailureTolerated ==
    contextFailed =>
        /\ pc \in {"awaitPaths", "awaitGuidance", "done"}
        /\ Settled =>
              /\ Len(calls) = 3
              /\ calls[2].fn = "getDependencyPaths"
              /\ calls[3].fn \in GuidanceFunctions
              /\ (~guidanceReply.threw /\ UsablePayload(guidanceReply.value)) =>
                    output.kind = "json"
              /\ output.kind = "json" => output.body.vulnerability = Placeholder

C4_Witness ==
    /\ Settled
    /\ contextFailed
    /\ output.kind = "json"
    /\ output.body.vulnerability =
          [name |-> <<"CVE-2023-1234">>,
           note |-> <<"Could not fetch vulnerability details">>]

\* C5: every invocation settles, and settles by returning a string (a JSON
\* result or an error text); no exception escapes to the caller.
C5_AlwaysReturnsString ==
    /\ <>Settled
    /\ [](output.kind \in {"pending", "text", "json"})
    /\ [](Settled => output.kind \in {"text", "json"})

C5_Witness ==
    /\ Settled
    /\ guidanceReply # JsUndefined
    /\ ~guidanceReply.threw
    /\ guidanceReply.value # JsNull
    /\ "shortTerm" \in DOMAIN guidanceReply.value
    /\ guidanceReply.value.shortTerm = [versionName |-> <<"2.17.0">>]
    /\ output.kind = "text"

\* C6: the guidance step issues exactly one guidance call: for DIRECT,
\* getUpgradeGuidance(componentId, componentVersionId); for TRANSITIVE,
\* getTransitiveUpgradeGuidance(componentId, componentVersionId, originId);
\* with the identifiers the dependency-path step resolved.
C6_OneGuidanceEndpoint ==
    /\ pc \in {"start", "awaitContext", "awaitPaths"} => GuidanceCalls = {}
    /\ dependencyAnalysis # JsUndefined =>
          /\ Len(calls) = 3
          /\ GuidanceCalls = {3}
          /\ dependencyAnalysis.dependencyType = "DIRECT" =>
                calls[3] = Call("getUpgradeGuidance",
                                <<dependencyAnalysis.guidanceComponentId,
                                  dependencyAnalysis.guidanceComponentVersionId>>)
          /\ dependencyAnalysis.dependencyType = "TRANSITIVE" =>
                calls[3] = Call("getTransitiveUpgradeGuidance",
                                <<dependencyAnalysis.guidanceComponentId,
                                  dependencyAnalysis.guidanceComponentVersionId,
                                  dependencyAnalysis.guidanceOriginId>>)

C6_Witness ==
    /\ Settled
    /\ dependencyAnalysis # JsUndefined
    /\ dependencyAnalysis.dependencyType = "TRANSITIVE"
    /\ calls[3] = Call("getTransitiveUpgradeGuidance",
                       << <<"C2">>, <<"V2">>, <<"O2">> >>)

\* Segments and tokens of an href, read off its text.
IsSegmentAt(h, seg, i) ==
    /\ h[i] = seg
    /\ i = 1 \/ h[i - 1] = "/"
    /\ i = Len(h) \/ h[i + 1] = "/"

HasSegment(h, seg) == h # UNDEF /\ \E i \in 1..Len(h) : IsSegmentAt(h, seg, i)

FirstSegment(h, seg) ==
    CHOOSE i \in 1..Len(h) :
        IsSegmentAt(h, seg, i) /\ \A j \in 1..(i - 1) : ~IsSegmentAt(h, seg, j)

\* The token right after the first segment seg: the text up to the next "/";
\* undefined when the href ends with the segment.
TokenAfter(h, seg) ==
    LET i == FirstSegment(h, seg)
        rest == SubSeq(h, i + 2, Len(h))
        n == CHOOSE k \in 0..Len(rest) :
                 /\ \A j \in 1..k : rest[j] # "/"
                 /\ k = Len(rest) \/ rest[k + 1] = "/"
    IN  IF i = Len(h) THEN UNDEF ELSE SubSeq(rest, 1, n)

RelFor(t) == IF t = "DIRECT" THEN "upgrade-guidance" ELSE "transitive-upgrade-guidance"

LinksOf(node) ==
    IF "meta" \in DOMAIN node /\ "links" \in DOMAIN node.meta THEN node.meta.links
    ELSE <<>>

HasTwoNodes(item) == "path" \in DOMAIN item /\ Len(item.path) >= 2

SecondToLast(item) == item.path[Len(item.path) - 1]

Matching(node, t) == {i \in 1..Len(LinksOf(node)) : LinksOf(node)[i].rel = RelFor(t)}

\* The link of the node with the relation for t (the first, if several).
GuidanceLink(node, t) ==
    LinksOf(node)[CHOOSE i \in Matching(node, t) : \A j \in Matching(node, t) : i <= j]

\* The cases in which extraction yields nothing: fewer than two nodes, no
\* link with the relation, or a link without a components or versions segment.
YieldsNothing(item, t) ==
    \/ ~HasTwoNodes(item)
    \/ /\ HasTwoNodes(item)
       /\ SecondToLast(item) # JsNull
       /\ \/ Matching(SecondToLast(item), t) = {}
          \/ /\ Matching(SecondToLast(item), t) # {}
             /\ \/ ~HasSegment(GuidanceLink(SecondToLast(item), t).href, "components")
                \/ ~HasSegment(GuidanceLink(SecondToLast(item), t).href, "versions")

\* The cases in which extraction yields identifiers.
YieldsIds(item, t) ==
    /\ HasTwoNodes(item)
    /\ SecondToLast(item) # JsNull
    /\ Matching(SecondToLast(item), t) # {}
    /\ HasSegment(GuidanceLink(SecondToLast(item), t).href, "components")
    /\ HasSegment(GuidanceLink(SecondToLast(item), t).href, "versions")

\* The identifiers read off the guidance link.
IdsOf(item, t) ==
    LET h == GuidanceLink(SecondToLast(item), t).href
    IN  [componentId |-> TokenAfter(h, "components"),
         componentVersionId |-> TokenAfter(h, "versions"),
         originId |-> IF t = "TRANSITIVE" /\ HasSegment(h, "origins")
                      THEN TokenAfter(h, "origins")
                      ELSE UNDEF]

\* The analysis the first item alone determines.
AnalysisOf(item) ==
    IF YieldsIds(item, item.type)
    THEN [dependencyType |-> item.type,
          guidanceComponentId |-> IdsOf(item, item.type).componentId,
          guidanceComponentVersionId |-> IdsOf(item, item.type).componentVersionId,
          guidanceOriginId |->
              IF IdsOf(item, item.type).originId \in {UNDEF, EMPTY}
              THEN params.originId
              ELSE IdsOf(item, item.type).originId]
    ELSE [dependencyType |-> item.type,
          guidanceComponentId |-> params.componentId,
          guidanceComponentVersionId |-> params.componentVersionId,
          guidanceOriginId |-> params.originId]

StepsHeader(t) ==
    IF t = "DIRECT"
    THEN <<"Update your dependency to one of the recommended versions:">>
    ELSE <<"This is a TRANSITIVE dependency. To fix:">>

\* C7: when getDependencyPaths returns items, the first item alone decides
\* the dependency type of the request (the endpoint called, the result's
\* dependencyType, the branch of actionSteps) and the identifiers; later
\* items change nothing.
C7_FirstItemDecides ==
    pathsOutcome = "items" =>
        /\ pc = "awaitGuidance" => firstItem = dependencyPaths.value.items[1]
        /\ dependencyAnalysis = AnalysisOf(firstItem)
        /\ calls[3].fn = IF firstItem.type = "DIRECT" THEN "getUpgradeGuidance"
                         ELSE "getTransitiveUpgradeGuidance"
        /\ (Settled /\ output.kind = "json") =>
              /\ output.body.component.dependencyType = firstItem.type
              /\ output.body.actionSteps[1] # StepsHeader(
                     IF firstItem.type = "DIRECT" THEN "TRANSITIVE" ELSE "DIRECT")
              /\ (\E h \in {"shortTerm", "longTerm"} :
                      "recommendedVersion" \in DOMAIN output.body.fixGuidance[h]) =>
                    output.body.actionSteps[1] = StepsHeader(firstItem.type)

C7_Witness ==
    /\ pc = "awaitGuidance"
    /\ pathsOutcome = "items"
    /\ Len(dependencyPaths.value.items) >= 2
    /\ dependencyPaths.value.items[1] = [type |-> "DIRECT", path |-> <<NodePlain>>]
    /\ dependencyPaths.value.items[2] =
          [type |-> "TRANSITIVE", path |-> <<NodeGood, NodePlain>>]
    /\ calls[3] = Call("getUpgradeGuidance", << <<"C0">>, <<"CV0">> >>)

\* C8: when the first item yields no identifiers, the guidance call uses the
\* caller's componentId, componentVersionId and originId, and the
\* classification is still the first item's type.
C8_OriginalsKept ==
    (pathsOutcome = "items" /\ YieldsNothing(firstItem, firstItem.type)) =>
        /\ dependencyAnalysis.dependencyType = firstItem.type
        /\ dependencyAnalysis.guidanceComponentId = params.componentId
        /\ dependencyAnalysis.guidanceComponentVersionId = params.componentVersionId
        /\ dependencyAnalysis.guidanceOriginId = params.originId
        /\ calls[3] = IF firstItem.type = "DIRECT" THEN DirectCallWithOriginals
                      ELSE Call("getTransitiveUpgradeGuidance",
                                <<params.componentId, params.componentVersionId,
                                  params.originId>>)

C8_Witness ==
    /\ pc = "awaitGuidance"
    /\ pathsOutcome = "items"
    /\ firstItem = [type |-> "TRANSITIVE", path |-> <<NodeMalformed, NodePlain>>]
    /\ calls[3] = Call("getTransitiveUpgradeGuidance",
                       << <<"C0">>, <<"CV0">>, <<"O0">> >>)

Extracted == pc = "extract" /\ exResult # JsUndefined

\* C9: for a path item with at least two nodes, extraction reads the
\* second-to-last node's link with the relation of the classification and
\* returns componentId = the token after "components", componentVersionId =
\* the token after "versions", and originId = the token after "origins" only
\* for TRANSITIVE with an "origins" segment (absent otherwise).
C9_ExtractionReadsLink ==
    (Extracted /\ YieldsIds(exItem, exType)) =>
        exResult = Return(IdsOf(exItem, exType))

C9_Witness ==
    /\ Extracted
    /\ exType = "TRANSITIVE"
    /\ HasTwoNodes(exItem)
    /\ exResult = Return([componentId |-> <<"C9">>, componentVersionId |-> <<"V9">>,
                          originId |-> <<"O9">>])

\* C10: extraction returns null and does not throw when the path has zero or
\* one node, when the second-to-last node has no link with the relation of
\* the classification, or when that link's href lacks a "components" or a
\* "versions" segment.
C10_AbsentWithoutThrow ==
    (Extracted /\ YieldsNothing(exItem, exType)) => exResult = Return(JsNull)

C10_Witness ==
    /\ Extracted
    /\ HasTwoNodes(exItem)
    /\ SecondToLast(exItem) = NodePlain
    /\ exResult = Return(JsNull)

(***************************************************************************)
(* C11.  The collaborator calls of one invocation are issued in the order  *)
(* context lookup, dependency-path lookup, guidance lookup; each step      *)
(* issues at most one call, a call is issued only in the step that handles *)
(* the completion (or failure) of the previous one, and a failed call is   *)
(* not issued again.                                                       *)
(***************************************************************************)
StepOf(fn) ==
    CASE fn = "getVulnerabilityRemediation" -> 1
      [] fn = "getDependencyPaths" -> 2
      [] fn \in GuidanceFunctions -> 3
      [] OTHER -> 0

\* The step whose call is outstanding, 0 when none is.
Awaited(at) ==
    CASE at = "awaitContext" -> 1
      [] at = "awaitPaths" -> 2
      [] at = "awaitGuidance" -> 3
      [] OTHER -> 0

CallsInOrder ==
    /\ \A i \in 1..Len(calls) : StepOf(calls[i].fn) = i
    /\ Awaited(pc) # 0 => Len(calls) = Awaited(pc)

CallAfterCompletion ==
    calls' # calls =>
        /\ Len(calls') = Len(calls) + 1
        /\ SubSeq(calls', 1, Len(calls)) = calls
        /\ Len(calls) > 0 =>
               Awaited(pc) = Len(calls) /\ Awaited(pc') = Len(calls) + 1

C11_SequentialCalls == []CallsInOrder /\ [][CallAfterCompletion]_vars

\* All three calls failed and the invocation settled after three calls.
C11_Witness ==
    /\ Settled
    /\ Len(calls) = 3
    /\ contextFailed
    /\ pathsOutcome = "failed"
    /\ guidanceReply # JsUndefined
    /\ guidanceReply.threw

(***************************************************************************)
(* The response: what is claimed of a built result.                       *)
(***************************************************************************)
\* buildResponse has been applied and the invocation has settled.
Built == pc = "response" /\ brResult # JsUndefined

\* The payload carries a recommendation, with its risk counts, at h.
Present(g, h) ==
    /\ g # JsNull
    /\ h \in DOMAIN g
    /\ g[h] # JsNull
    /\ "vulnerabilityRisk" \in DOMAIN g[h]

\* The payload has no key h.
Absent(g, h) == g # JsNull /\ h \notin DOMAIN g

\* Sum of the four buckets.
BucketSum(r) == r.critical + r.high + r.medium + r.low

Remaining(g, h) == BucketSum(g[h].vulnerabilityRisk)

NoFixAdvisory ==
    <<"This vulnerability cannot be fixed by upgrading. Consider alternative remediation strategies such as applying security patches, implementing mitigating controls, or replacing the component.">>

(***************************************************************************)
(* C12.  With both horizons in the guidance payload the recommendation is  *)
(* chosen from the total remaining vulnerabilities of each: the long-term  *)
(* version when its total is strictly smaller, else the short-term version *)
(* when its total is 0, else the neutral sentence.                         *)
(***************************************************************************)
ComparisonAdvice(g) ==
    IF Remaining(g, "longTerm") < Remaining(g, "shortTerm")
    THEN <<"Recommended: Use the long-term version (">> \o g.longTerm.versionName
           \o <<") as it has fewer vulnerabilities.">>
    ELSE IF Remaining(g, "shortTerm") = 0
    THEN <<"Recommended: Use the short-term version (">> \o g.shortTerm.versionName
           \o <<") as it has no known vulnerabilities.">>
    ELSE <<"Both versions have vulnerabilities. Consider the trade-offs between version compatibility and security.">>

C12_ComparisonRecommendation ==
    (Built /\ Present(brGuidance, "shortTerm") /\ Present(brGuidance, "longTerm"))
        => /\ brResult.kind = "json"
           /\ brResult.body.recommendation = ComparisonAdvice(brGuidance)

\* Both totals are 0 and the short-term version is recommended.
C12_Witness ==
    /\ Built
    /\ Present(brGuidance, "shortTerm")
    /\ Present(brGuidance, "longTerm")
    /\ Remaining(brGuidance, "shortTerm") = 0
    /\ Remaining(brGuidance, "longTerm") = 0
    /\ brResult.kind = "json"
    /\ brResult.body.recommendation =
           <<"Recommended: Use the short-term version (", "2.17.0",
             ") as it has no known vulnerabilities.">>

(***************************************************************************)
(* C13.  With exactly one horizon in the guidance payload the              *)
(* recommendation names that horizon and its version, whatever the risk    *)
(* counts; with neither horizon it is the no-fix advisory sentence.        *)
(***************************************************************************)
OnlyAdvice(horizon, version) ==
    (IF horizon = "shortTerm"
     THEN <<"Only short-term fix available. Upgrade to ">>
     ELSE <<"Only long-term fix available. Upgrade to ">>) \o version \o <<".">>

C13_SingleHorizonRecommendation ==
    Built =>
        /\ (Present(brGuidance, "shortTerm") /\ Absent(brGuidance, "longTerm"))
              => /\ brResult.kind = "json"
                 /\ brResult.body.recommendation =
                        OnlyAdvice("shortTerm", brGuidance.shortTerm.versionName)
        /\ (Absent(brGuidance, "shortTerm") /\ Present(brGuidance, "longTerm"))
              => /\ brResult.kind = "json"
                 /\ brResult.body.recommendation =
                        OnlyAdvice("longTerm", brGuidance.longTerm.versionName)
        /\ (Absent(brGuidance, "shortTerm") /\ Absent(brGuidance, "longTerm"))
              => /\ brResult.kind = "json"
                 /\ brResult.body.recommendation = NoFixAdvisory

\* Only the short-term horizon, with vulnerabilities remaining.
C13_Witness ==
    /\ Built
    /\ Present(brGuidance, "shortTerm")
    /\ Absent(brGuidance, "longTerm")
    /\ Remaining(brGuidance, "shortTerm") > 0
    /\ brResult.kind = "json"
    /\ brResult.body.recommendation =
           <<"Only short-term fix available. Upgrade to ", "2.17.0", ".">>

(***************************************************************************)
(* C14.  actionSteps follows a three-way branch: with neither horizon it   *)
(* is the fixed seven-line sequence, whatever the dependency type; with a  *)
(* fix and DIRECT it starts with the update-your-dependency line and ends  *)
(* with the four closing steps; with a fix and TRANSITIVE it starts with   *)
(* the transitive framing followed by the update-the-parent line.          *)
(***************************************************************************)
NotFixableSteps ==
    << <<"This vulnerability is NOT FIXABLE by upgrading the component.">>,
       <<"No short-term or long-term fix is available from the component maintainers.">>,
       <<"Consider these alternative remediation strategies:">>,
       <<"  - Apply security patches or workarounds if available">>,
       <<"  - Implement additional security controls to mitigate the risk">>,
       <<"  - Consider replacing the component with a secure alternative">>,
       <<"  - Accept the risk if it's deemed acceptable for your use case">> >>

DirectClosingSteps ==
    << <<"Update your package manager configuration (e.g., package.json, pom.xml, etc.)">>,
       <<"Run your package manager's install/update command">>,
       <<"Test your application to ensure compatibility">>,
       <<"Scan again with Black Duck to verify the vulnerability is resolved">> >>

\* Each horizon is a recommendation or is missing from the payload.
WellFormed(g) ==
    /\ g # JsNull
    /\ \A h \in {"shortTerm", "longTerm"} : Present(g, h) \/ Absent(g, h)

SomeFix(g) == Present(g, "shortTerm") \/ Present(g, "longTerm")

LastFour(steps) == SubSeq(steps, Len(steps) - 3, Len(steps))

C14_ActionStepsBranch ==
    (Built /\ WellFormed(brGuidance)) =>
        /\ brResult.kind = "json"
        /\ ~SomeFix(brGuidance) => brResult.body.actionSteps = NotFixableSteps
        /\ (SomeFix(brGuidance) /\ brType = "DIRECT") =>
              /\ Len(brResult.body.actionSteps) >= 5
              /\ brResult.body.actionSteps[1] =
                     <<"Update your dependency to one of the recommended versions:">>
              /\ LastFour(brResult.body.actionSteps) = DirectClosingSteps
        /\ (SomeFix(brGuidance) /\ brType = "TRANSITIVE") =>
              /\ Len(brResult.body.actionSteps) >= 2
              /\ brResult.body.actionSteps[1] =
                     <<"This is a TRANSITIVE dependency. To fix:">>
              /\ brResult.body.actionSteps[2] =
                     <<"Update the parent/direct dependency that includes this component:">>

\* A transitive dependency without a fix gets the seven lines.
C14_Witness ==
    /\ Built
    /\ Absent(brGuidance, "shortTerm")
    /\ Absent(brGuidance, "longTerm")
    /\ brType = "TRANSITIVE"
    /\ brResult.kind = "json"
    /\ Len(brResult.body.actionSteps) = 7

(***************************************************************************)
(* C15.  As claimed: in the DIRECT and TRANSITIVE lists the line of a      *)
(* horizon that is missing from the guidance payload is left out of        *)
(* actionSteps (C15_AbsentLineOmitted, which the code contradicts).  As    *)
(* the code has it: the line of a missing horizon is the placeholder       *)
(* "  - Short-term: No fix available" / "  - Long-term: No fix available", *)
(* in that horizon's place in the list (C15_AbsentLinePlaceholder).        *)
(***************************************************************************)
HorizonLabel(h) == IF h = "shortTerm" THEN "Short-term" ELSE "Long-term"

\* The line is one of the per-horizon lines of h.
LineOf(line, h) ==
    Len(line) >= 2 /\ line[1] = "  - " /\ line[2] = HorizonLabel(h)

\* Where the line of h stands when both lines are in the list.
PlaceOf(t, h) ==
    (IF t = "DIRECT" THEN 1 ELSE 2) + (IF h = "shortTerm" THEN 1 ELSE 2)

RECURSIVE Flat(_)
Flat(text) == IF text = <<>> THEN "" ELSE Head(text) \o Flat(Tail(text))

RECURSIVE CommaJoined(_)
CommaJoined(entries) ==
    IF entries = <<>> THEN ""
    ELSE IF Len(entries) = 1 THEN entries[1]
    ELSE entries[1] \o ", " \o CommaJoined(Tail(entries))

BucketOrder == <<"critical", "high", "medium", "low">>

\* "<n> <label>" for each bucket that is not zero, in the fixed order.
NonZeroEntries(r) ==
    LET kept == SelectSeq(BucketOrder, LAMBDA b : r[b] > 0)
    IN  [i \in 1..Len(kept) |-> ToString(r[kept[i]]) \o " " \o kept[i]]

Describe(r) ==
    IF BucketSum(r) = 0 THEN "Eliminates all known vulnerabilities"
    ELSE IF r.critical = 0 /\ r.high = 0
    THEN "Eliminates all critical and high severity vulnerabilities ("
           \o ToString(BucketSum(r)) \o " low/medium remain)"
    ELSE ToString(BucketSum(r)) \o " vulnerabilities remain: "
           \o CommaJoined(NonZeroEntries(r))

(***************************************************************************)
(* C16.  fixGuidance always has both keys; a horizon of the payload        *)
(* becomes its version, its raw risk counts, their description and its     *)
(* origin id, and a missing horizon becomes {available: false, message}    *)
(* with the message of that horizon.                                       *)
(***************************************************************************)
HorizonBlock(block, rec) ==
    /\ DOMAIN block =
           {"recommendedVersion", "vulnerabilitiesRemaining", "riskReduction", "originId"}
    /\ block.recommendedVersion = rec.versionName
    /\ block.vulnerabilitiesRemaining = rec.vulnerabilityRisk
    /\ Flat(block.riskReduction) = Describe(rec.vulnerabilityRisk)
    /\ block.originId = rec.originExternalId

UnavailableBlock(block, h) ==
    /\ DOMAIN block = {"available", "message"}
    /\ block.available = FALSE
    /\ Flat(block.message) = (IF h = "shortTerm" THEN "No short-term fix available"
                              ELSE "No long-term fix available")

C16_FixGuidanceBlocks ==
    (Built /\ WellFormed(brGuidance)) =>
        /\ brResult.kind = "json"
        /\ DOMAIN brResult.body.fixGuidance = {"shortTerm", "longTerm"}
        /\ \A h \in {"shortTerm", "longTerm"} :
              /\ Present(brGuidance, h) =>
                     HorizonBlock(brResult.body.fixGuidance[h], brGuidance[h])
              /\ Absent(brGuidance, h) =>
                     UnavailableBlock(brResult.body.fixGuidance[h], h)

\* A short-term recommendation with vulnerabilities left and no long-term one.
C16_Witness ==
    /\ Built
    /\ Present(brGuidance, "shortTerm")
    /\ Remaining(brGuidance, "shortTerm") = 2
    /\ Absent(brGuidance, "longTerm")
    /\ brResult.kind = "json"
    /\ brResult.body.fixGuidance.longTerm.available = FALSE
    /\ brResult.body.fixGuidance.shortTerm.recommendedVersion = <<"2.17.0">>

\* The risk aggregation has been applied.
Aggregated == pc = "risk" /\ rrResult # JsUndefined

(***************************************************************************)
(* C17.  calculateRiskReduction of non-negative counts is "Eliminates all  *)
(* known vulnerabilities" for a total of 0, the critical-and-high sentence *)
(* with the total when critical and high are 0, and otherwise the total    *)
(* followed by the non-zero buckets in the order critical, high, medium,   *)
(* low, joined by commas.                                                  *)
(***************************************************************************)
C17_RiskDescription ==
    Aggregated => Flat(rrResult.riskReduction) = Describe(rrRisks)

\* describe({1, 0, 2, 0})
C17_Witness ==
    /\ Aggregated
    /\ rrRisks = [critical |-> 1, high |-> 0, medium |-> 2, low |-> 0]
    /\ Flat(rrResult.riskReduction) = "3 vulnerabilities remain: 1 critical, 2 medium"

(***************************************************************************)
(* C18.  getTotalVulnerabilities of non-negative integer counts is the sum *)
(* of the four buckets, and is not negative.                               *)
(***************************************************************************)
RECURSIVE SumOver(_, _)
SumOver(r, buckets) ==
    IF buckets = <<>> THEN 0 ELSE r[Head(buckets)] + SumOver(r, Tail(buckets))

C18_TotalIsSum ==
    Aggregated =>
        /\ rrResult.total = SumOver(rrRisks, BucketOrder)
        /\ rrResult.total >= 0
        /\ \A b \in DOMAIN rrRisks : rrResult.total >= rrRisks[b]

\* 1 + 2 + 0 + 1
C18_Witness ==
    /\ Aggregated
    /\ rrRisks = [critical |-> 1, high |-> 2, medium |-> 0, low |-> 1]
    /\ rrResult.total = 4

(***************************************************************************)
(* C19.  With the context fetched, the description of the result is the    *)
(* source description when that has at most 200 characters, and its first  *)
(* 200 characters followed by "..." when it is longer; it never has more   *)
(* than 203 characters, and there is no description text when the source   *)
(* has no description.                                                     *)
(***************************************************************************)
\* Characters of a text: its pieces grouped by their width.
RECURSIVE CharsOfWidths(_, _)
CharsOfWidths(text, widths) ==
    IF widths = {} THEN 0
    ELSE LET w == CHOOSE x \in widths : TRUE
         IN  w * Cardinality({i \in DOMAIN text : Len(text[i]) = w})
               + CharsOfWidths(text, widths \ {w})

CharCount(text) == CharsOfWidths(text, {Len(text[i]) : i \in DOMAIN text})

ContextFetched == brDetails \notin {JsUndefined, JsNull}

\* The result has no description, or an empty one.
NoDescriptionText(v) == "description" \notin DOMAIN v \/ v.description = <<>>

C19_DescriptionTruncated ==
    (Built /\ ContextFetched /\ brResult.kind = "json") =>
        LET v == brResult.body.vulnerability
        IN  IF "description" \in DOMAIN brDetails
            THEN /\ "description" \in DOMAIN v
                 /\ Len(brDetails.description) <= 200
                       => v.description = brDetails.description
                 /\ Len(brDetails.description) > 200
                       => v.description =
                              SubSeq(brDetails.description, 1, 200) \o <<"...">>
                 /\ CharCount(v.description) <= 203
            ELSE NoDescriptionText(v)

(***************************************************************************)
(* C20.  Concurrent invocations do not interfere: whatever the             *)
(* interleaving of their awaited steps, a step of one invocation changes   *)
(* nothing of another, and each invocation issues the guidance call and    *)
(* settles with the output that the pipeline run alone produces from the   *)
(* same parameters and the same collaborator responses.                    *)
(***************************************************************************)
\* The pipeline run alone is the composition of its functions, applied to
\* the parameters and the replies of t without any step in between.
AloneAnalysis(t) == analyzeDependencyType(t.params, t.pathsReply)

AloneGuidanceCall(t) ==
    fetchUpgradeGuidance(AloneAnalysis(t).dependencyType,
                         AloneAnalysis(t).guidanceComponentId,
                         AloneAnalysis(t).guidanceComponentVersionId,
                         AloneAnalysis(t).guidanceOriginId)

\* The output of the pipeline run alone on the parameters and replies of t.
AloneOutput(t) ==
    IF validateParameters(t.params).threw
    THEN Settle(validateParameters(t.params))
    ELSE Settle(IF t.guidanceReply.threw THEN t.guidanceReply
                ELSE buildResponse(t.params.vulnerabilityId,
                                   IF t.contextReply.threw THEN JsUndefined
                                   ELSE t.contextReply.value,
                                   AloneAnalysis(t).dependencyType,
                                   t.guidanceReply.value))

AsWhenAlone ==
    \A i \in DOMAIN tasks :
        /\ tasks[i].pc \in {"awaitGuidance", "done"} /\ tasks[i].pathsReply # JsUndefined
              => tasks[i].guidanceCall = AloneGuidanceCall(tasks[i])
        /\ tasks[i].pc = "done" => tasks[i].output = AloneOutput(tasks[i])

StepIsLocal ==
    \A i \in DOMAIN tasks :
        tasks'[i] # tasks[i] =>
            \A j \in DOMAIN tasks \ {i} : tasks'[j] = tasks[j]

C20_NoInterference == []AsWhenAlone /\ [][StepIsLocal]_vars

\* Two invocations that overlapped settled with different classifications.
C20_Witness ==
    /\ pc = "concurrent"
    /\ tasks[1].pc = "done"
    /\ tasks[2].pc = "done"
    /\ tasks[1].overlapped \/ tasks[2].overlapped
    /\ tasks[1].output.kind = "json"
    /\ tasks[2].output.kind = "json"
    /\ tasks[1].output.body.component.dependencyType = "TRANSITIVE"
    /\ tasks[2].output.body.component.dependencyType = "DIRECT"


(***************************************************************************)
(* The MCP server (index.ts) and the remediation update tool               *)
(* (remediation.ts).                                                       *)
(***************************************************************************)
\* README.md, "Available Tools": the tools documented as available.
DocumentedTools ==
    {"list_projects", "find_project_by_name", "get_project_details",
     "list_project_versions", "get_project_vulnerabilities",
     "get_vulnerability_details", "update_vulnerability_remediation",
     "get_vulnerability_fix_guidance"}

\* The tools the ListTools handler returns, in its order.
ListedTools ==
    <<"list_projects", "find_project_by_name", "get_project_details",
      "list_project_versions", "get_project_vulnerabilities",
      "get_vulnerability_details", "update_vulnerability_remediation">>

\* The case labels of the CallTool handler's switch.
DispatchedTools ==
    {"list_projects", "find_project_by_name", "get_project_details",
     "list_project_versions", "get_project_vulnerabilities",
     "get_vulnerability_details", "update_vulnerability_remediation"}

\* z.enum([...]) of UpdateVulnerabilityRemediationSchema, which is also the
\* README's list and the RemediationStatus type.
RemediationStatusEnum ==
    {<<"NEW">>, <<"REMEDIATION_REQUIRED">>, <<"REMEDIATION_COMPLETE">>,
     <<"DUPLICATE">>, <<"IGNORED">>, <<"MITIGATED">>, <<"NEEDS_REVIEW">>,
     <<"NOT_VULNERABLE">>, <<"PATCHED">>}

VALID_REMEDIATION_STATUSES ==
    << <<"NEW">>, <<"REMEDIATION_REQUIRED">>, <<"DUPLICATE">>, <<"IGNORED">> >>

McpError(code, message) == [kind |-> "error", code |-> code, message |-> message]

ToolResult(text) == [kind |-> "result", content |-> text]

updateStringFields ==
    <<"projectId", "projectVersionId", "componentId", "componentVersionId",
      "vulnerabilityId">>

\* The issues z.object(...).parse(args) collects, in the order of the keys.
RECURSIVE ZodIssuesFrom(_, _)
ZodIssuesFrom(args, i) ==
    IF i > Len(updateStringFields)
    THEN IF args.remediationStatus \in RemediationStatusEnum THEN <<>>
         ELSE << <<"remediationStatus", ": ", "<zod message>">> >>
    ELSE (IF args[updateStringFields[i]] = UNDEF
          THEN << <<updateStringFields[i], ": ", "<zod message>">> >>
          ELSE <<>>) \o ZodIssuesFrom(args, i + 1)

\* UpdateVulnerabilityRemediationSchema.parse(args): strings may be empty,
\* the status is one of the nine, the comment is optional.
UpdateVulnerabilityRemediationSchema(args) ==
    IF ZodIssuesFrom(args, 1) = <<>> THEN Return(args)
    ELSE Throw(MkError("ZodError", "ZodError", Join(ZodIssuesFrom(args, 1))))

\* Mutation of validateRemediationStatus: every status passes.
validateRemediationStatusAccepting(status) == Return(JsUndefined)

validateRemediationStatus(status) ==
    IF \E i \in 1..Len(VALID_REMEDIATION_STATUSES) :
           VALID_REMEDIATION_STATUSES[i] = status
    THEN Return(JsUndefined)
    ELSE Throw(MkError("BlackDuckError", "ValidationError",
                       <<"Invalid remediation status: ">> \o Interp(status)
                           \o <<". Valid values are: ">>
                           \o Join(VALID_REMEDIATION_STATUSES)))

updateRequiredFields ==
    <<"projectId", "projectVersionId", "componentId", "componentVersionId",
      "vulnerabilityId", "remediationStatus">>

\* Lines 55-77: the first blank required field, in the order of the checks.
RECURSIVE updateRequiredFrom(_, _)
updateRequiredFrom(p, i) ==
    IF i > Len(updateRequiredFields) THEN UNDEF
    ELSE IF FieldBlank(p, updateRequiredFields[i])
         THEN <<"Error: ", updateRequiredFields[i], " is required">>
         ELSE updateRequiredFrom(p, i + 1)

\* The request blackDuckClient.updateVulnerabilityRemediation sends.
PutRequest(p) ==
    [projectId |-> p.projectId, projectVersionId |-> p.projectVersionId,
     componentId |-> p.componentId, componentVersionId |-> p.componentVersionId,
     vulnerabilityId |-> p.vulnerabilityId,
     update |-> [remediationStatus |-> p.remediationStatus,
                 comment |-> p.comment]]

\* updateVulnerabilityRemediation up to its await: the text it returns at
\* once, or the update it sends.
updateVulnerabilityRemediation(p) ==
    IF updateRequiredFrom(p, 1) # UNDEF
    THEN [sends |-> FALSE, text |-> updateRequiredFrom(p, 1)]
    ELSE IF validateRemediationStatus(p.remediationStatus).threw
         THEN [sends |-> FALSE,
               text |-> formatErrorForMCP(
                            validateRemediationStatus(p.remediationStatus).error)]
         ELSE [sends |-> TRUE, put |-> PutRequest(p)]

\* Lines 94-118: the text returned once the update has settled.
updateResult(p, reply) ==
    IF reply.threw THEN [kind |-> "text", body |-> formatErrorForMCP(reply.error)]
    ELSE [kind |-> "json",
          body |->
              DropUndefined(
                  [success |-> TRUE,
                   vulnerabilityName |-> Field(reply.value, "vulnerabilityName"),
                   previousStatus |->
                       <<"Check getVulnerabilityDetails for previous status">>,
                   newStatus |-> p.remediationStatus,
                   comment |-> IF Truthy(p.comment) THEN p.comment
                               ELSE <<"No comment provided">>,
                   updatedAt |-> Field(reply.value, "remediationUpdatedAt"),
                   updatedBy |-> Field(reply.value, "remediationUpdatedBy"),
                   vulnerability |->
                       DropUndefined(
                           [severity |-> Field(reply.value, "severity"),
                            baseScore |-> Field(reply.value, "baseScore"),
                            description |->
                                TruncateDescription(
                                    Field(reply.value, "description"))],
                           {"severity", "baseScore"})],
                  {"vulnerabilityName", "updatedAt", "updatedBy"})]

\* Arguments of the update tool: each identifier missing, empty, blank or
\* valid; one of the nine statuses, another one, or none; with or without a
\* comment.
UpdateArgs ==
    LET ids == {updateStringFields[i] : i \in 1..Len(updateStringFields)}
    IN  {[f \in ids \cup {"remediationStatus", "comment"} |->
            CASE f = "remediationStatus" -> st
              [] f = "comment" -> cm
              [] c[f] = "undefined" -> UNDEF
              [] c[f] = "empty" -> EMPTY
              [] c[f] = "blank" -> BLANK
              [] OTHER -> ValidParams[f]] :
            c \in [ids -> FieldShapes],
            st \in RemediationStatusEnum \cup {<<"FIXED">>, EMPTY, BLANK, UNDEF},
            cm \in {UNDEF, <<"accepted risk">>}}

\* The requests: a listing, a call of each documented tool and of a tool
\* that does not exist, and the update called with each argument record.
ServerRequests ==
    {[method |-> "tools/list", name |-> "", args |-> JsUndefined]}
        \cup {[method |-> "tools/call", name |-> n, args |-> JsUndefined] :
                 n \in (DocumentedTools \cup {"no_such_tool"})
                           \ {"update_vulnerability_remediation"}}
        \cup {[method |-> m, name |-> "update_vulnerability_remediation",
               args |-> a] : m \in {"tools/call", "direct"}, a \in UpdateArgs}

\* What the platform answers to the update.
UpdatedRecord(status) ==
    [vulnerabilityName |-> <<"CVE-2023-1234">>, severity |-> <<"HIGH">>,
     baseScore |-> <<"7.5">>, description |-> <<"d", "e", "s", "c">>,
     remediationStatus |-> status,
     remediationUpdatedAt |-> <<"2024-01-01T00:00:00Z">>,
     remediationUpdatedBy |-> <<"user-1">>]

PutReplies(status) ==
    {Return(UpdatedRecord(status)), Return([remediationStatus |-> status])}
        \cup {Throw(e) : e \in CollaboratorErrors}

ServerInit ==
    /\ PipelineIdle("server")
    /\ ExtractionIdle
    /\ ResultIdle
    /\ AuthIdle
    /\ srvPc = "start"
    /\ srvRequest \in ServerRequests
    /\ srvResponse = JsUndefined
    /\ srvPuts = <<>>
    /\ srvRemote = <<"NEW">>

\* The tool ran up to its await: it answered, or its update is in flight.
RunUpdate(p) ==
    IF updateVulnerabilityRemediation(p).sends
    THEN /\ srvPuts' = Append(srvPuts, updateVulnerabilityRemediation(p).put)
         /\ srvPc' = "awaitPut"
         /\ UNCHANGED srvResponse
    ELSE /\ srvResponse' =
               ToolResult([kind |-> "text",
                           body |-> updateVulnerabilityRemediation(p).text])
         /\ srvPc' = "done"
         /\ UNCHANGED srvPuts

\* The ListToolsRequestSchema handler.
ListTools ==
    /\ srvPc = "start"
    /\ srvRequest.method = "tools/list"
    /\ srvResponse' = [kind |-> "tools", tools |-> ListedTools]
    /\ srvPc' = "done"
    /\ UNCHANGED <<srvRequest, srvPuts, srvRemote>>
    /\ UNCHANGED <<pipelineVars, extractionVars, responseVars, riskVars, tasks,
                   authVars>>

\* The CallToolRequestSchema handler, up to the tool's first await.  The six
\* read-only tools are outside this model: their case answers with text or
\* with the InvalidParams error of a failed parse.
CallTool ==
    /\ srvPc = "start"
    /\ srvRequest.method = "tools/call"
    /\ IF srvRequest.name \notin DispatchedTools
       THEN /\ srvResponse' =
                  McpError("MethodNotFound", <<"Unknown tool: ", srvRequest.name>>)
            /\ srvPc' = "done"
            /\ UNCHANGED srvPuts
       ELSE IF srvRequest.name # "update_vulnerability_remediation"
       THEN /\ \E outcome \in
                    {ToolResult([kind |-> "json", body |-> <<srvRequest.name>>]),
                     McpError("InvalidParams",
                              <<"Invalid parameters: ", "<zod message>">>)} :
                   srvResponse' = outcome
            /\ srvPc' = "done"
            /\ UNCHANGED srvPuts
       ELSE IF UpdateVulnerabilityRemediationSchema(srvRequest.args).threw
       THEN /\ srvResponse' =
                  McpError("InvalidParams",
                           <<"Invalid parameters: ">>
                               \o UpdateVulnerabilityRemediationSchema(
                                      srvRequest.args).error.message)
            /\ srvPc' = "done"
            /\ UNCHANGED srvPuts
       ELSE RunUpdate(srvRequest.args)
    /\ UNCHANGED <<srvRequest, srvRemote>>
    /\ UNCHANGED <<pipelineVars, extractionVars, responseVars, riskVars, tasks,
                   authVars>>

\* updateVulnerabilityRemediation called as a function, without the schema.
DirectUpdate ==
    /\ srvPc = "start"
    /\ srvRequest.method = "direct"
    /\ RunUpdate(srvRequest.args)
    /\ UNCHANGED <<srvRequest, srvRemote>>
    /\ UNCHANGED <<pipelineVars, extractionVars, responseVars, riskVars, tasks,
                   authVars>>

\* The update settles: the platform applied it and answered, or it failed.
PutCompletes(reply) ==
    /\ srvPc = "awaitPut"
    /\ srvResponse' = ToolResult(updateResult(srvRequest.args, reply))
    /\ srvRemote' = IF reply.threw THEN srvRemote
                    ELSE srvRequest.args.remediationStatus
    /\ srvPc' = "done"
    /\ UNCHANGED <<srvRequest, srvPuts>>
    /\ UNCHANGED <<pipelineVars, extractionVars, responseVars, riskVars, tasks,
                   authVars>>

PutStep ==
    /\ srvPc = "awaitPut"
    /\ \E reply \in PutReplies(srvRequest.args.remediationStatus) :
           PutCompletes(reply)

ServerNext ==
    \/ ListTools
    \/ CallTool
    \/ DirectUpdate
    \/ PutStep

SpecServer == ServerInit /\ [][ServerNext]_vars


(***************************************************************************)
(* Claims about the server and the remediation update.                     *)
(***************************************************************************)
UnknownTool(response) ==
    /\ "kind" \in DOMAIN response
    /\ response.kind = "error"
    /\ response.code = "MethodNotFound"

UpdateRequested ==
    /\ srvRequest.method \in {"tools/call", "direct"}
    /\ srvRequest.name = "update_vulnerability_remediation"

RequiredNames ==
    {"projectId", "projectVersionId", "componentId", "componentVersionId",
     "vulnerabilityId", "remediationStatus"}

MissingOrBlank(value) == value = UNDEF \/ Trim(value) = EMPTY

AcceptedStatus(status) ==
    \E i \in 1..Len(VALID_REMEDIATION_STATUSES) :
        VALID_REMEDIATION_STATUSES[i] = status

RequiredText(response) ==
    /\ response.kind = "result"
    /\ response.content.kind = "text"
    /\ \E f \in RequiredNames :
           /\ MissingOrBlank(srvRequest.args[f])
           /\ response.content.body = <<"Error: ", f, " is required">>

InvalidStatusText(response) ==
    /\ response.kind = "result"
    /\ response.content.kind = "text"
    /\ SubSeq(response.content.body, 1, 3) =
           <<"ValidationError", ": ", "Invalid remediation status: ">>

Rejected(response) ==
    /\ response.kind = "error"
    /\ response.code = "InvalidParams"

\* C21 (as claimed): every tool the README documents is in the list the
\* server returns, and calling a documented tool never ends in the
\* "Unknown tool" MethodNotFound error.
C21_DocumentedToolsServed ==
    /\ (srvPc = "done" /\ srvRequest.method = "tools/list")
           => \A n \in DocumentedTools :
                  \E i \in 1..Len(srvResponse.tools) : srvResponse.tools[i] = n
    /\ (srvPc = "done" /\ srvRequest.method = "tools/call"
            /\ srvRequest.name \in DocumentedTools)
           => ~UnknownTool(srvResponse)

\* C22 (as claimed): with all required fields non-blank and any of the nine
\* documented statuses, the update is sent to the platform with that status.
C22_DocumentedStatusSent ==
    (/\ srvPc # "start"
     /\ UpdateRequested
     /\ srvRequest.args.remediationStatus \in RemediationStatusEnum
     /\ \A f \in RequiredNames : ~MissingOrBlank(srvRequest.args[f]))
        => /\ Len(srvPuts) = 1
           /\ srvPuts[1].update.remediationStatus =
                  srvRequest.args.remediationStatus

MinTokenLength == 10

\* 5 * 60 * 1000 ms
TokenBuffer == 5

\* 2 * 60 * 60 * 1000 ms
TokenLifetime == 120

placeholders ==
    {<<"y", "o", "u", "r", "-", "a", "p", "i", "-", "t", "o", "k", "e", "n">>,
     <<"y", "o", "u", "r", "-", "t", "o", "k", "e", "n">>,
     <<"t", "o", "k", "e", "n", "-", "h", "e", "r", "e">>,
     <<"x", "x", "x">>, <<"y", "y", "y">>}

\* String.prototype.toLowerCase, on the letters the inputs use.
toLowerCase(s) ==
    [i \in 1..Len(s) |->
        CASE s[i] = "Y" -> "y" [] s[i] = "O" -> "o" [] s[i] = "U" -> "u"
          [] s[i] = "R" -> "r" [] s[i] = "T" -> "t" [] s[i] = "K" -> "k"
          [] s[i] = "E" -> "e" [] s[i] = "N" -> "n" [] s[i] = "X" -> "x"
          [] OTHER -> s[i]]

\* String.prototype.includes
includes(s, sub) ==
    \E i \in 1..(Len(s) - Len(sub) + 1) : SubSeq(s, i, i + Len(sub) - 1) = sub

ValidationError(message) == MkError("BlackDuckError", "ValidationError", message)

validateApiToken(token) ==
    IF ~Truthy(token) \/ Len(Trim(token)) = 0
    THEN Throw(ValidationError(<<"API token cannot be empty">>))
    ELSE IF Len(token) < MinTokenLength
    THEN Throw(ValidationError(<<"API token appears to be invalid (too short)">>))
    ELSE IF \E p \in placeholders : includes(toLowerCase(token), p)
    THEN Throw(ValidationError(
             <<"Please replace the placeholder API token with your actual Black Duck API token">>))
    ELSE Return(JsUndefined)

\* The n-th bearer token the platform issues.
BearerToken(n) == [bearer |-> n]

\* API tokens a caller may pass: valid, undefined, empty, blank, too short,
\* and two placeholders.
ApiTokens ==
    {<<"b", "d", "0", "1", "2", "3", "4", "5", "6", "7", "8", "9">>,
     UNDEF, EMPTY, <<" ", " ">>, <<"b", "d", "0">>,
     <<"Y", "O", "U", "R", "-", "T", "O", "K", "E", "N", "-", "1">>,
     <<"b", "d", "x", "x", "x", "0", "1", "2", "3", "4", "5">>}

\* How the authenticate request (POST) can settle.
PostReplies == {"bearerToken", "noBearerToken", "401", "networkError"}

\* Greatest number of calls of authenticateAndGetBearerToken.
MaxAuthCalls == 3

\* Greatest number of clock advances.
MaxTicks == 4

\* The clock advances by about half the time a cached token is served, so
\* that calls fall just before and just after tokenExpiry - 5 minutes.
TickSteps ==
    {(TokenLifetime - TokenBuffer) \div 2, (TokenLifetime - TokenBuffer) \div 2 + 1}

AuthInit ==
    /\ PipelineIdle("auth")
    /\ ExtractionIdle
    /\ ResultIdle
    /\ ServerIdle
    /\ AuthIdle

NewCall(apiToken, at, sent, result) ==
    [apiToken |-> apiToken, pc |-> at, sent |-> sent, result |-> result]

\* Mutation of AuthCall: the cached token is served up to its expiry.
AuthCallWithoutBuffer(apiToken) ==
    /\ pc = "auth"
    /\ Len(authCalls) < MaxAuthCalls
    /\ authCalls' =
           Append(authCalls,
                  IF validateApiToken(apiToken).threw
                  THEN NewCall(apiToken, "done", FALSE, validateApiToken(apiToken))
                  ELSE IF cachedBearerToken # JsNull /\ now < tokenExpiry
                  THEN NewCall(apiToken, "done", FALSE, Return(cachedBearerToken))
                  ELSE NewCall(apiToken, "awaitPost", TRUE, JsUndefined))
    /\ UNCHANGED <<cachedBearerToken, tokenExpiry, now, issued>>
    /\ UNCHANGED <<pipelineVars, extractionVars, responseVars, riskVars, tasks,
                   serverVars>>

\* Lines 123-147: authenticateAndGetBearerToken up to its await: validation
\* throws, the cached token is returned, or the authenticate request is sent.
AuthCall(apiToken) ==
    /\ pc = "auth"
    /\ Len(authCalls) < MaxAuthCalls
    /\ authCalls' =
           Append(authCalls,
                  IF validateApiToken(apiToken).threw
                  THEN NewCall(apiToken, "done", FALSE, validateApiToken(apiToken))
                  ELSE IF cachedBearerToken # JsNull
                          /\ now < tokenExpiry - TokenBuffer
                  THEN NewCall(apiToken, "done", FALSE, Return(cachedBearerToken))
                  ELSE NewCall(apiToken, "awaitPost", TRUE, JsUndefined))
    /\ UNCHANGED <<cachedBearerToken, tokenExpiry, now, issued>>
    /\ UNCHANGED <<pipelineVars, extractionVars, responseVars, riskVars, tasks,
                   serverVars>>

\* What the call throws when its request settled with something else than a
\* bearer token.
AuthFailure(reply) ==
    CASE reply = "noBearerToken" ->
             ValidationError(<<"No bearer token returned from authentication endpoint">>)
      [] reply = "401" ->
             ValidationError(<<"Invalid API token. Please check your BLACK_DUCK_API_TOKEN in .env file. Generate a new token from: Black Duck > User Profile > My Access Tokens">>)
      [] OTHER -> PlainError(<<"socket hang up">>)

\* Lines 149-173: the request of call i settles.  A bearer token is cached
\* with its expiry and returned; anything else clears the cache and throws.
PostCompletes(i, reply) ==
    /\ authCalls[i].pc = "awaitPost"
    /\ IF reply = "bearerToken"
       THEN /\ issued' = issued + 1
            /\ cachedBearerToken' = BearerToken(issued + 1)
            /\ tokenExpiry' = now + TokenLifetime
            /\ authCalls' =
                   [authCalls EXCEPT ![i].pc = "done",
                                     ![i].result = Return(BearerToken(issued + 1))]
       ELSE /\ cachedBearerToken' = JsNull
            /\ tokenExpiry' = 0
            /\ authCalls' =
                   [authCalls EXCEPT ![i].pc = "done",
                                     ![i].result = Throw(AuthFailure(reply))]
            /\ UNCHANGED issued
    /\ UNCHANGED now
    /\ UNCHANGED <<pipelineVars, extractionVars, responseVars, riskVars, tasks,
                   serverVars>>

\* Date.now() moves on.
Tick(d) ==
    /\ pc = "auth"
    /\ now + d <= 1 + MaxTicks * ((TokenLifetime - TokenBuffer) \div 2 + 1)
    /\ now' = now + d
    /\ UNCHANGED <<cachedBearerToken, tokenExpiry, issued, authCalls>>
    /\ UNCHANGED <<pipelineVars, extractionVars, responseVars, riskVars, tasks,
                   serverVars>>

\* A call starts while no other call is under way.
AuthCallAlone ==
    /\ \A i \in 1..Len(authCalls) : authCalls[i].pc = "done"
    /\ \E apiToken \in ApiTokens : AuthCall(apiToken)

PostStep ==
    /\ pc = "auth"
    /\ \E i \in 1..Len(authCalls) : \E reply \in PostReplies : PostCompletes(i, reply)

\* Calls one after the other.
AuthNext ==
    \/ AuthCallAlone
    \/ PostStep
    \/ \E d \in TickSteps : Tick(d)

SpecAuth == AuthInit /\ [][AuthNext]_vars

\* Calls that overlap: a call starts whatever the other calls are doing.
AuthConcurrentNext ==
    \/ \E apiToken \in ApiTokens : AuthCall(apiToken)
    \/ PostStep
    \/ \E d \in TickSteps : Tick(d)

SpecAuthConcurrent == AuthInit /\ [][AuthConcurrentNext]_vars


(***************************************************************************)
(* Claims about the bearer-token cache.                                    *)
(***************************************************************************)
\* The call that starts in this step.
Starting == Len(authCalls') = Len(authCalls) + 1

Newest == authCalls'[Len(authCalls')]

\* Call i settles in this step.
Settling(i) == authCalls[i].pc = "awaitPost" /\ authCalls'[i].pc = "done"

Requests(callList) == Cardinality({i \in 1..Len(callList) : callList[i].sent})

\* A token is cached and the time is earlier than its expiry minus 5 minutes.
Fresh == cachedBearerToken # JsNull /\ now < tokenExpiry - 5

AcceptedTokens == {t \in ApiTokens : ~validateApiToken(t).threw}

\* A call with one of these API tokens returns the cached token without a
\* request exactly when the cache is fresh, and otherwise sends one request.
StartFollowsCache(apiTokens) ==
    (Starting /\ Newest.apiToken \in apiTokens)
        => /\ Fresh <=> /\ Newest.pc = "done"
                        /\ Newest.result = Return(cachedBearerToken)
                        /\ Requests(authCalls') = Requests(authCalls)
           /\ ~Fresh => /\ Newest.pc = "awaitPost"
                        /\ Requests(authCalls') = Requests(authCalls) + 1

\* A request that succeeds caches the token it returns, for 2 hours.
SuccessCaches ==
    \A i \in 1..Len(authCalls) :
        (Settling(i) /\ ~authCalls'[i].result.threw)
            => /\ cachedBearerToken' = authCalls'[i].result.value
               /\ tokenExpiry' = now + 120

\* Whatever a call returns is the token issued last.
ReturnsNewest ==
    \A i \in 1..Len(authCalls') :
        (/\ authCalls'[i].pc = "done"
         /\ i <= Len(authCalls) => authCalls[i].pc # "done"
         /\ ~authCalls'[i].result.threw)
            => /\ issued' > 0
               /\ authCalls'[i].result.value = BearerToken(issued')

\* C23 (as claimed): every call returns the cached token without a request
\* exactly when the cache is fresh and otherwise sends one request; success
\* caches the token for 2 hours; calls made one after the other always
\* return the most recently issued token.
C23_CacheDecides ==
    [][StartFollowsCache(ApiTokens) /\ SuccessCaches /\ ReturnsNewest]_vars

\* C23 (amended): the same, for calls whose API token passes validation; a
\* call that fails validation throws before the cache is looked at.
C23_CacheDecidesAfterValidation ==
    [][/\ StartFollowsCache(AcceptedTokens)
       /\ SuccessCaches
       /\ ReturnsNewest
       /\ (Starting /\ Newest.apiToken \notin AcceptedTokens)
              => /\ Newest.pc = "done"
                 /\ Newest.result.threw
                 /\ Requests(authCalls') = Requests(authCalls)]_vars

\* A first call fetched token 1, a second one was served from the cache, a
\* third one, after the cache went stale, fetched token 2.
C23_Witness ==
    /\ Len(authCalls) = 3
    /\ authCalls[1].sent /\ authCalls[1].result = Return(BearerToken(1))
    /\ ~authCalls[2].sent /\ authCalls[2].result = Return(BearerToken(1))
    /\ authCalls[3].sent /\ authCalls[3].result = Return(BearerToken(2))
    /\ cachedBearerToken = BearerToken(2)
    /\ tokenExpiry = now + 120

Failing(i) == Settling(i) /\ authCalls'[i].result.threw

CacheDiscarded == cachedBearerToken # JsNull /\ cachedBearerToken' = JsNull

\* C30 (as claimed): the token is null exactly when the expiry is 0; only a
\* failed authenticate request clears the cache; a call rejected by
\* validation leaves the cache unchanged; and the failure of a call does not
\* discard the token cached by a successful call that started after it.
C30_CacheCoherent ==
    /\ []((cachedBearerToken = JsNull) <=> (tokenExpiry = 0))
    /\ [][/\ CacheDiscarded
              => /\ tokenExpiry' = 0
                 /\ \E i \in 1..Len(authCalls) : Failing(i)
          /\ (Starting /\ Newest.result # JsUndefined /\ Newest.result.threw)
              => UNCHANGED <<cachedBearerToken, tokenExpiry>>
          /\ \A i \in 1..Len(authCalls) :
                 (Failing(i) /\ CacheDiscarded)
                     => ~\E j \in (i + 1)..Len(authCalls) :
                            /\ authCalls[j].sent
                            /\ authCalls[j].result = Return(cachedBearerToken)]_vars


(***************************************************************************)
(* Dependency analysis on its own: analyzeDependencyType applied to a      *)
(* response whose first item is given, and the guidance call that follows. *)
(***************************************************************************)
\* First items of either classification, over every modelled link.
AnalysisItems ==
    {IF "path" \in DOMAIN item THEN [type |-> t, path |-> item.path]
     ELSE [type |-> t] : t \in DependencyTypes, item \in ExtractionItems}

AnalysisInit ==
    /\ PipelineIdle("analyse")
    /\ exType = "DIRECT"
    /\ exItem \in AnalysisItems
    /\ exResult = JsUndefined
    /\ SideIdle

ApplyAnalysis ==
    /\ pc = "analyse"
    /\ exResult = JsUndefined
    /\ \E analysis \in
           {analyzeDependencyType(
                params, Return([totalCount |-> 1, items |-> <<exItem>>]))} :
           exResult' =
               [analysis |-> analysis,
                call |-> fetchUpgradeGuidance(analysis.dependencyType,
                                              analysis.guidanceComponentId,
                                              analysis.guidanceComponentVersionId,
                                              analysis.guidanceOriginId)]
    /\ UNCHANGED <<exType, exItem>>
    /\ UNCHANGED pipelineVars
    /\ UNCHANGED sideVars

SpecAnalysis == AnalysisInit /\ [][ApplyAnalysis]_vars

\* What extractComponentIdsFromPath yields for the first item.
LinkIds == extractComponentIdsFromPath(exItem, exItem.type)

\* C25 (as claimed): every identifier passed to the guidance endpoint is a
\* non-empty string, the caller's own or a token of the guidance link.
C25_IdentifiersNonEmpty ==
    exResult # JsUndefined
        => \A k \in 1..Len(exResult.call.args) :
               /\ exResult.call.args[k] # UNDEF
               /\ exResult.call.args[k] # EMPTY

\* C28 (as claimed): the three identifiers passed to
\* getTransitiveUpgradeGuidance are all the caller's originals or all taken
\* from the guidance link.
C28_OneSourceOfIdentifiers ==
    (exResult # JsUndefined /\ exResult.call.fn = "getTransitiveUpgradeGuidance")
        => \/ exResult.call.args =
                  <<params.componentId, params.componentVersionId, params.originId>>
           \/ /\ ~LinkIds.threw
              /\ LinkIds.value # NoIds
              /\ exResult.call.args =
                     <<LinkIds.value.componentId,
                       LinkIds.value.componentVersionId,
                       LinkIds.value.originId>>


(***************************************************************************)
(* Claims about the agreement of the parts of a FixGuidanceResult.         *)
(***************************************************************************)
\* fixGuidance reports horizon h as not available.
ReportedUnavailable(h) ==
    /\ "available" \in DOMAIN brResult.body.fixGuidance[h]
    /\ brResult.body.fixGuidance[h].available = FALSE

\* C26 (as claimed): when fixGuidance reports both horizons unavailable,
\* actionSteps is the 7-line non-fixable sequence and recommendation is the
\* no-fix advisory sentence; the recommendation is never an empty string.
C26_PartsAgree ==
    (Built /\ brResult.kind = "json")
        => /\ brResult.body.recommendation # EMPTY
           /\ (ReportedUnavailable("shortTerm") /\ ReportedUnavailable("longTerm"))
                  => /\ brResult.body.actionSteps = NotFixableSteps
                     /\ brResult.body.recommendation = NoFixAdvisory

\* The version the recommendation names as recommended, if any.
Recommends(h, version) ==
    /\ Len(brResult.body.recommendation) = 3
    /\ brResult.body.recommendation[1] =
           (IF h = "longTerm" THEN "Recommended: Use the long-term version ("
            ELSE "Recommended: Use the short-term version (")
    /\ brResult.body.recommendation[2] = version[1]

\* C27: with both horizons present the recommended horizon never has more
\* remaining vulnerabilities than the other: the long-term version is named
\* only when its total is strictly smaller, the short-term version only when
\* its total is 0.
C27_NeverRecommendsWorse ==
    (Built /\ Present(brGuidance, "shortTerm") /\ Present(brGuidance, "longTerm"))
        => /\ brResult.kind = "json"
           /\ Recommends("longTerm", brGuidance.longTerm.versionName)
                  => Remaining(brGuidance, "longTerm")
                         < Remaining(brGuidance, "shortTerm")
           /\ Recommends("shortTerm", brGuidance.shortTerm.versionName)
                  => /\ Remaining(brGuidance, "shortTerm") = 0
                     /\ Remaining(brGuidance, "shortTerm")
                            <= Remaining(brGuidance, "longTerm")
           /\ \A h \in {"shortTerm", "longTerm"} :
                  Recommends(h, brGuidance[h].versionName)
                      => \A other \in {"shortTerm", "longTerm"} :
                             Remaining(brGuidance, h) <= Remaining(brGuidance, other)

\* The long-term version, with fewer remaining vulnerabilities, is the one
\* recommended.
C27_Witness ==
    /\ Built
    /\ Present(brGuidance, "shortTerm")
    /\ Present(brGuidance, "longTerm")
    /\ Remaining(brGuidance, "longTerm") < Remaining(brGuidance, "shortTerm")
    /\ brResult.kind = "json"
    /\ Recommends("longTerm", brGuidance.longTerm.versionName)


(***************************************************************************)
(* The earlier, monolithic getVulnerabilityFixGuidance (remediation.ts,    *)
(* lines 142-422), as a function of its parameters and of what its three   *)
(* collaborator calls complete with.                                       *)
(***************************************************************************)
\* Lines 155-173: the text returned for the first blank field, if any.
RECURSIVE monolithRequiredFrom(_, _)
monolithRequiredFrom(p, i) ==
    IF i > Len(requiredFields) THEN UNDEF
    ELSE IF FieldBlank(p, requiredFields[i])
         THEN <<"Error: ", requiredFields[i], " is required">>
         ELSE monolithRequiredFrom(p, i + 1)

\* Lines 193-246: the classification and the identifiers for the guidance
\* call.  Whatever is thrown inside the try block is swallowed; assignments
\* made before it stay.
monolithAnalysis(p, reply) ==
    LET start == [dependencyType |-> "DIRECT",
                  guidanceComponentId |-> p.componentId,
                  guidanceComponentVersionId |-> p.componentVersionId,
                  guidanceOriginId |-> p.originId]
    IN  IF reply.threw \/ reply.value = JsNull THEN start
        ELSE IF "items" \notin DOMAIN reply.value \/ Len(reply.value.items) = 0
        THEN start
        ELSE LET first == reply.value.items[1]
                 typed == [start EXCEPT !.dependencyType = first.type]
             IN  IF "path" \notin DOMAIN first \/ Len(first.path) <= 1
                 THEN typed
                 ELSE LET links == NodeLinks(first.path[Len(first.path) - 1])
                          k == IF links.threw THEN 0
                               ELSE FindLink(links.value,
                                             GuidanceRel(first.type), 1)
                      IN  IF k = 0 \/ ~Truthy(links.value[k].href) THEN typed
                          ELSE LET hrefParts == Split(links.value[k].href)
                                   componentsIndex ==
                                       IndexOf(hrefParts, <<"components">>)
                                   versionsIndex == IndexOf(hrefParts, <<"versions">>)
                                   originsIndex == IndexOf(hrefParts, <<"origins">>)
                               IN  IF componentsIndex = -1 \/ versionsIndex = -1
                                   THEN typed
                                   ELSE [typed EXCEPT
                                           !.guidanceComponentId =
                                               At(hrefParts, componentsIndex + 1),
                                           !.guidanceComponentVersionId =
                                               At(hrefParts, versionsIndex + 1),
                                           !.guidanceOriginId =
                                               IF originsIndex # -1
                                                  /\ first.type = "TRANSITIVE"
                                               THEN At(hrefParts, originsIndex + 1)
                                               ELSE @]

\* Lines 178-263: the collaborator calls of an invocation that passed
\* validation, given the completion of getDependencyPaths.
monolithCalls(p, pathsReply) ==
    LET analysis == monolithAnalysis(p, pathsReply)
    IN  <<Call("getVulnerabilityRemediation",
               <<p.projectId, p.projectVersionId, p.componentId,
                 p.componentVersionId, p.vulnerabilityId>>),
          Call("getDependencyPaths", <<p.projectId, p.projectVersionId, p.originId>>),
          IF analysis.dependencyType = "DIRECT"
          THEN Call("getUpgradeGuidance",
                    <<analysis.guidanceComponentId,
                      analysis.guidanceComponentVersionId>>)
          ELSE Call("getTransitiveUpgradeGuidance",
                    <<analysis.guidanceComponentId,
                      analysis.guidanceComponentVersionId,
                      analysis.guidanceOriginId>>)>>

\* Lines 305-335: one horizon of result.fixGuidance.
monolithHorizon(upgradeGuidance, h, label) ==
    IF HorizonTruthy(upgradeGuidance, h)
    THEN IF "vulnerabilityRisk" \notin DOMAIN upgradeGuidance[h]
         THEN Throw(TypeError(<<"Cannot read properties of undefined">>))
         ELSE Return([recommendedVersion |-> Field(upgradeGuidance[h], "versionName"),
                      vulnerabilitiesRemaining |-> upgradeGuidance[h].vulnerabilityRisk,
                      riskReduction |->
                          calculateRiskReduction(upgradeGuidance[h].vulnerabilityRisk),
                      originId |-> Field(upgradeGuidance[h], "originExternalId")])
    ELSE Return([available |-> FALSE,
                 message |-> <<"No ", label, " fix available">>])

\* Lines 343-391: result.actionSteps, after filter(Boolean).
monolithActionSteps(dependencyType, upgradeGuidance) ==
    LET hasFix(h) == h \in DOMAIN upgradeGuidance
        entry(h, line, label) ==
            IF HorizonTruthy(upgradeGuidance, h) THEN << line >>
            ELSE IF hasFix(h) = FALSE
            THEN << <<"  - ", label, ": No fix available">> >>
            ELSE <<>>
        direct(h, label) ==
            <<"  - ", label, ": ">> \o Interp(Field(upgradeGuidance[h], "versionName"))
              \o <<" (", ToString(getTotalVulnerabilities(
                                    upgradeGuidance[h].vulnerabilityRisk)),
                   " vulnerabilities remaining)">>
        transitive(h, label) ==
            <<"  - ", label, " parent version: Check which direct dependency needs updating to get ">>
              \o Interp(Field(upgradeGuidance[h], "versionName"))
    IN  IF ~(hasFix("shortTerm") \/ hasFix("longTerm"))
        THEN << <<"This vulnerability is NOT FIXABLE by upgrading the component.">>,
                <<"No short-term or long-term fix is available from the component maintainers.">>,
                <<"Consider these alternative remediation strategies:">>,
                <<"  - Apply security patches or workarounds if available">>,
                <<"  - Implement additional security controls to mitigate the risk">>,
                <<"  - Consider replacing the component with a secure alternative">>,
                <<"  - Accept the risk if it's deemed acceptable for your use case">> >>
        ELSE IF dependencyType = "DIRECT"
        THEN << <<"Update your dependency to one of the recommended versions:">> >>
               \o entry("shortTerm", direct("shortTerm", "Short-term"), "Short-term")
               \o entry("longTerm", direct("longTerm", "Long-term"), "Long-term")
               \o << <<"Update your package manager configuration (e.g., package.json, pom.xml, etc.)">>,
                     <<"Run your package manager's install/update command">>,
                     <<"Test your application to ensure compatibility">>,
                     <<"Scan again with Black Duck to verify the vulnerability is resolved">> >>
        ELSE << <<"This is a TRANSITIVE dependency. To fix:">>,
                <<"Update the parent/direct dependency that includes this component:">> >>
               \o entry("shortTerm", transitive("shortTerm", "Short-term"), "Short-term")
               \o entry("longTerm", transitive("longTerm", "Long-term"), "Long-term")
               \o << <<"The transitive component will be automatically upgraded when you update the parent">>,
                     <<"Run your package manager's install/update command">>,
                     <<"Test your application to ensure compatibility">>,
                     <<"Scan again with Black Duck to verify the vulnerability is resolved">> >>

\* Lines 393-416: result.recommendation, which stays unassigned (UNDEF) when
\* a fix is counted but neither horizon is truthy.
monolithRecommendation(upgradeGuidance) ==
    IF "shortTerm" \notin DOMAIN upgradeGuidance
       /\ "longTerm" \notin DOMAIN upgradeGuidance
    THEN <<"This vulnerability cannot be fixed by upgrading. Consider alternative remediation strategies such as applying security patches, implementing mitigating controls, or replacing the component.">>
    ELSE IF HorizonTruthy(upgradeGuidance, "shortTerm")
            /\ HorizonTruthy(upgradeGuidance, "longTerm")
    THEN LET shortTermVulns ==
                 getTotalVulnerabilities(upgradeGuidance.shortTerm.vulnerabilityRisk)
             longTermVulns ==
                 getTotalVulnerabilities(upgradeGuidance.longTerm.vulnerabilityRisk)
         IN  IF longTermVulns < shortTermVulns
             THEN <<"Recommended: Use the long-term version (">>
                    \o upgradeGuidance.longTerm.versionName
                    \o <<") as it has fewer vulnerabilities.">>
             ELSE IF shortTermVulns = 0
             THEN <<"Recommended: Use the short-term version (">>
                    \o upgradeGuidance.shortTerm.versionName
                    \o <<") as it has no known vulnerabilities.">>
             ELSE <<"Both versions have vulnerabilities. Consider the trade-offs between version compatibility and security.">>
    ELSE IF HorizonTruthy(upgradeGuidance, "shortTerm")
    THEN <<"Only short-term fix available. Upgrade to ">>
           \o Interp(Field(upgradeGuidance.shortTerm, "versionName")) \o <<".">>
    ELSE IF HorizonTruthy(upgradeGuidance, "longTerm")
    THEN <<"Only long-term fix available. Upgrade to ">>
           \o Interp(Field(upgradeGuidance.longTerm, "versionName")) \o <<".">>
    ELSE UNDEF

\* Lines 268-416: the result object, or what building it throws: the payload
\* is first read at upgradeGuidance.componentName.
monolithResult(vulnerabilityId, details, dependencyType, upgradeGuidance) ==
    IF upgradeGuidance = JsNull
    THEN Throw(TypeError(<<"Cannot read properties of null (reading 'componentName')">>))
    ELSE IF upgradeGuidance = JsUndefined
    THEN Throw(TypeError(<<"Cannot read properties of undefined (reading 'componentName')">>))
    ELSE LET shortTerm == monolithHorizon(upgradeGuidance, "shortTerm", "short-term")
             longTerm == monolithHorizon(upgradeGuidance, "longTerm", "long-term")
         IN  IF shortTerm.threw THEN shortTerm
             ELSE IF longTerm.threw THEN longTerm
             ELSE Return(
                 [vulnerability |->
                      buildVulnerabilityInfo(vulnerabilityId, details),
                  component |->
                      [name |-> Field(upgradeGuidance, "componentName"),
                       currentVersion |-> Field(upgradeGuidance, "versionName"),
                       dependencyType |-> dependencyType,
                       originId |-> Field(upgradeGuidance, "originExternalId")],
                  fixGuidance |-> [shortTerm |-> shortTerm.value,
                                   longTerm |-> longTerm.value],
                  actionSteps |-> monolithActionSteps(dependencyType, upgradeGuidance),
                  recommendation |-> monolithRecommendation(upgradeGuidance)])

\* Lines 142-422: what the monolithic function returns.  JSON.stringify
\* leaves out the recommendation when it was never assigned.
monolithReturn(p, details, pathsReply, guidanceCompletion) ==
    IF monolithRequiredFrom(p, 1) # UNDEF
    THEN [kind |-> "text", body |-> monolithRequiredFrom(p, 1)]
    ELSE IF guidanceCompletion.threw
    THEN [kind |-> "text", body |-> formatErrorForMCP(guidanceCompletion.error)]
    ELSE LET result ==
                 monolithResult(p.vulnerabilityId, details,
                                monolithAnalysis(p, pathsReply).dependencyType,
                                guidanceCompletion.value)
         IN  IF result.threw
             THEN [kind |-> "text", body |-> formatErrorForMCP(result.error)]
             ELSE [kind |-> "json",
                   body |-> DropUndefined(JSONstringify(result.value),
                                          {"recommendation"})]

(***************************************************************************)
(* C29.  The refactored pipeline and the monolithic function return the    *)
(* same string and issue the same collaborator calls with the same         *)
(* arguments, for every input and every collaborator response.             *)
(***************************************************************************)
SameOutput(a, b) ==
    /\ a.kind = b.kind
    /\ IF a.kind = "json" THEN a.body = b.body ELSE Flat(a.body) = Flat(b.body)

\* C29 (as claimed): whenever the pipeline settles, its output and its calls
\* are those of the monolithic function on the same input and responses.
C29_SameAsMonolith ==
    [][/\ (pc = "start" /\ pc' = "done")
              => /\ calls' = <<>>
                 /\ SameOutput(output',
                               monolithReturn(params, JsUndefined, JsUndefined,
                                              JsUndefined))
       /\ (pc = "awaitGuidance" /\ pc' = "done")
              => /\ calls' = monolithCalls(params, dependencyPaths)
                 /\ SameOutput(output',
                               monolithReturn(params, vulnerabilityDetails,
                                              dependencyPaths, guidanceReply'))]_vars

====
